---- MODULE Spec2Model ----
(***************************************************************************)
(* Model of the RAGX core pipeline (packages/core): MemoryManager,         *)
(* ToolRegistry, ContextBuilder and the RAGEngine query state machine.     *)
(* Each component has its own specification over the shared variables.     *)
(***************************************************************************)
EXTENDS Integers, Sequences, FiniteSets, TLC

VARIABLES
    maxMessages,   \* MemoryManager.maxMessages
    memories,      \* MemoryManager.memories: Map<sessionId, ChatMessage[]>
    added,         \* history variable: messages added per session since its last clear
    tools,         \* ToolRegistry.tools: Map<name, ITool>
    toolRun,       \* the last executeTool call and its outcome
    buildRun,      \* the last ContextBuilder.build call and its result
    cfg,           \* RAGEngine.config (AgentConfig)
    calls,         \* the query()/queryStream() invocations and their local variables
    retrieveRun,   \* the last Retriever.retrieve call and its outcome
    chunkRun,      \* the DocumentProcessor.process call under way, or the last one
    groundRun,     \* the last ContextBuilder.verifyGrounding call and its result
    expandRun,     \* the last QueryTransformer.expand call and its result
    vectorStore,   \* MemoryVectorStore.vectors
    docStore,      \* MemoryDocumentStore.documents: Map<id, Document>
    storeRun,      \* the deleteDocuments / retrieve call under way on the stores
    compressRun,   \* the last ICompressor.compress call and its result
    chatRun,       \* the streaming chat request under way on the server
    answers        \* the answers the capabilities give to a pair of invocations

vars == <<maxMessages, memories, added, tools, toolRun, buildRun,
          cfg, calls, retrieveRun, chunkRun, groundRun, expandRun,
          vectorStore, docStore, storeRun, compressRun, chatRun, answers>>

storeVars == <<vectorStore, docStore, storeRun>>

runVars == <<retrieveRun, chunkRun, groundRun, expandRun>>

otherRuns == <<compressRun, chatRun, answers>>

engineVars == <<cfg, calls>>

None == "none"

Min(a, b) == IF a <= b THEN a ELSE b

\* JavaScript Array.prototype.slice(start) for 0 <= start <= length
SliceFrom(s, start) == SubSeq(s, start + 1, Len(s))

\* JavaScript Array.prototype.slice(0, end) for end >= 0
SliceTo(s, end) == SubSeq(s, 1, Min(end, Len(s)))

(***************************************************************************)
(* MemoryManager                                                           *)
(***************************************************************************)
Sessions == {"s1", "s2"}

MemMessages == {[role |-> "user", content |-> "a"], [role |-> "assistant", content |-> "b"]}

\* bound: messages added to one session between two clears
MaxAdds == 4

\* bound: largest configured window tried besides the default
MaxWindow == 3

DefaultMaxMessages == 10

\* constructor: this.maxMessages = config?.maxMessages || 10   (0 stands for "not configured")
MemoryManagerNew(config) == IF config = 0 THEN DefaultMaxMessages ELSE config

\* a plausible slip: a new array whatever the Map holds
GetHistoryEmpty(mem, s) == <<>>

\* this.memories.get(sessionId) || []
GetHistory(mem, s) == IF s \in DOMAIN mem THEN mem[s] ELSE <<>>

MapSet(m, k, v) == [x \in DOMAIN m \cup {k} |-> IF x = k THEN v ELSE m[x]]

MapDelete(m, k) == [x \in DOMAIN m \ {k} |-> m[x]]

\* a plausible slip: the window keeps the oldest messages instead of the newest
AddMessageKeepsOldest(mem, max, s, msg) ==
    LET pushed == Append(GetHistory(mem, s), msg)
        history == IF Len(pushed) > max THEN SliceTo(pushed, max) ELSE pushed
    IN MapSet(mem, s, history)

\* addMessage: push, then keep the last maxMessages, then memories.set
AddMessageTo(mem, max, s, msg) ==
    LET pushed == Append(GetHistory(mem, s), msg)
        history == IF Len(pushed) > max
                     THEN SliceFrom(pushed, Len(pushed) - max)
                     ELSE pushed
    IN MapSet(mem, s, history)

AddMessage(s, msg) ==
    /\ Len(added[s]) < MaxAdds
    /\ memories' = AddMessageTo(memories, maxMessages, s, msg)
    /\ added' = [added EXCEPT ![s] = Append(@, msg)]
    /\ UNCHANGED <<maxMessages, tools, toolRun, buildRun, engineVars, runVars, storeVars, otherRuns>>

ClearHistory(s) ==
    /\ memories' = MapDelete(memories, s)
    /\ added' = [added EXCEPT ![s] = <<>>]
    /\ UNCHANGED <<maxMessages, tools, toolRun, buildRun, engineVars, runVars, storeVars, otherRuns>>

(***************************************************************************)
(* ToolRegistry                                                            *)
(***************************************************************************)
ToolNames == {"t1", "t2", "t3"}

\* what a registered tool's execute(args) does: resolve with a value, reject with
\* an Error carrying a message, or reject with a value that is not an Error
ToolBehaviours ==
    {[kind |-> "resolve", value |-> "r1"],
     [kind |-> "rejectError", value |-> "m1"],
     [kind |-> "rejectError", value |-> "m2"],
     [kind |-> "rejectValue", value |-> "m1"]}

\* `Error executing tool ${name}: ${message}`
ErrorString(name, message) == <<"Error executing tool ", name, ": ", message>>

\* `Tool not found: ${name}`
NotFoundError(name) == <<"Tool not found: ", name>>

\* a plausible slip: the tool's failure is rethrown instead of being turned into a string
ExecuteToolRethrows(reg, name) ==
    IF name \notin DOMAIN reg
      THEN [status |-> "threw", value |-> NotFoundError(name), executed |-> FALSE]
      ELSE IF reg[name].kind = "resolve"
             THEN [status |-> "returned", value |-> reg[name].value, executed |-> TRUE]
             ELSE [status |-> "threw", value |-> reg[name].value, executed |-> TRUE]

\* executeTool(name, args): the outcome of the call and whether tool.execute ran
ExecuteToolOn(reg, name) ==
    IF name \notin DOMAIN reg
      THEN [status |-> "threw", value |-> NotFoundError(name), executed |-> FALSE]
      ELSE IF reg[name].kind = "resolve"
             THEN [status |-> "returned", value |-> reg[name].value, executed |-> TRUE]
             \* error instanceof Error ? error.message : String(error)
             ELSE [status |-> "returned",
                   value |-> ErrorString(name, reg[name].value),
                   executed |-> TRUE]

Register(name, behaviour) ==
    /\ tools' = MapSet(tools, name, behaviour)
    /\ UNCHANGED <<maxMessages, memories, added, toolRun, buildRun, engineVars, runVars, storeVars, otherRuns>>

ExecuteTool(name) ==
    /\ toolRun' = [done |-> TRUE,
                   name |-> name,
                   registered |-> name \in DOMAIN tools,
                   behaviour |-> IF name \in DOMAIN tools
                                   THEN tools[name]
                                   ELSE [kind |-> None, value |-> None],
                   outcome |-> ExecuteToolOn(tools, name)]
    /\ UNCHANGED <<maxMessages, memories, added, tools, buildRun, engineVars, runVars, storeVars, otherRuns>>

(***************************************************************************)
(* ContextBuilder.build                                                    *)
(***************************************************************************)
\* bound: documents handed to one build call
MaxDocs == 3

TokenCounts == {10, 50, 100}

Budgets == {40, 150, 4000}

\* token cost of system prompt + query + history, as the caller would count it
Overheads == {0, 20}

\* documents with the given tokenCounts, ids by position
DocsOf(counts) == [i \in 1..Len(counts) |-> [id |-> i, tokenCount |-> counts[i]]]

DocLists == UNION {[1..n -> TokenCounts] : n \in 0..MaxDocs}

\* build(query, documents, history): the third argument is stored as history,
\* the document list is returned as given
BuildContext(query, documents, third) ==
    [query |-> query, documents |-> documents, history |-> third]

\* builder.build("test query", retrievedDocs, maxTokens)
Build(counts, maxTokens, overhead) ==
    /\ buildRun' = [done |-> TRUE,
                    input |-> DocsOf(counts),
                    maxTokens |-> maxTokens,
                    overhead |-> overhead,
                    context |-> BuildContext("q", DocsOf(counts), maxTokens)]
    /\ UNCHANGED <<maxMessages, memories, added, tools, toolRun, engineVars, runVars, storeVars, otherRuns>>

(***************************************************************************)
(* Text: a string is a sequence of one-character strings                   *)
(***************************************************************************)
Sentinel ==
    <<"I","N","S","U","F","F","I","C","I","E","N","T","_","C","O","N","T","E","X","T">>

UpperChars ==
    <<"A","B","C","D","E","F","G","H","I","J","K","L","M",
      "N","O","P","Q","R","S","T","U","V","W","X","Y","Z">>

LowerChars ==
    <<"a","b","c","d","e","f","g","h","i","j","k","l","m",
      "n","o","p","q","r","s","t","u","v","w","x","y","z">>

Whitespace == {" ", "\n", "\t"}

LowerChar(ch) ==
    IF \E i \in 1..Len(UpperChars) : UpperChars[i] = ch
      THEN LowerChars[CHOOSE i \in 1..Len(UpperChars) : UpperChars[i] = ch]
      ELSE ch

\* String.prototype.toLowerCase
ToLowerCase(s) == [i \in 1..Len(s) |-> LowerChar(s[i])]

RECURSIVE TrimStart(_)
TrimStart(s) ==
    IF s # <<>> /\ s[1] \in Whitespace THEN TrimStart(Tail(s)) ELSE s

RECURSIVE TrimEnd(_)
TrimEnd(s) ==
    IF s # <<>> /\ s[Len(s)] \in Whitespace THEN TrimEnd(SubSeq(s, 1, Len(s) - 1)) ELSE s

\* String.prototype.trim
Trim(s) == TrimEnd(TrimStart(s))

\* String.prototype.split(/\s+/): a run of whitespace ends the current piece, also
\* an empty one at the start; the piece after the last run is always emitted
RECURSIVE SplitFrom(_, _, _)
SplitFrom(s, piece, pieces) ==
    IF s = <<>>
      THEN Append(pieces, piece)
      ELSE IF s[1] \in Whitespace
             THEN SplitFrom(TrimStart(s), <<>>, Append(pieces, piece))
             ELSE SplitFrom(Tail(s), Append(piece, s[1]), pieces)

SplitWhitespace(s) == SplitFrom(s, <<>>, <<>>)

\* countTokens: Math.ceil(text.length / 4)
CountTokens(text) == (Len(text) + 3) \div 4

\* String.prototype.includes
Includes(text, word) ==
    \E i \in 0..(Len(text) - Len(word)) : SubSeq(text, i + 1, i + Len(word)) = word

\* Array.prototype.join(" ")
RECURSIVE JoinSpace(_)
JoinSpace(parts) ==
    IF parts = <<>> THEN <<>>
    ELSE IF Len(parts) = 1 THEN parts[1]
    ELSE parts[1] \o <<" ">> \o JoinSpace(Tail(parts))

\* Array.prototype.filter, counted
RECURSIVE CountMatching(_, _)
CountMatching(words, contextText) ==
    IF words = <<>> THEN 0
    ELSE (IF Len(words[1]) > 3 /\ Includes(contextText, words[1]) THEN 1 ELSE 0)
         + CountMatching(Tail(words), contextText)

IsSentinelExactly(response) == response = Sentinel

\* if (response.trim() === "INSUFFICIENT_CONTEXT")
IsSentinel(response) == Trim(response) = Sentinel

ReachesRatioStrictly(matching, total) == 10 * matching > 3 * total

\* groundingRatio = matchingWords.length / responseWords.length; groundingRatio >= 0.3
ReachesRatio(matching, total) == 10 * matching >= 3 * total

\* verifyGrounding(response, context)
VerifyGrounding(response, context) ==
    IF IsSentinel(response) THEN TRUE
    ELSE IF Len(context.documents) = 0 THEN FALSE
    ELSE LET contextText ==
                 JoinSpace([i \in 1..Len(context.documents) |->
                               ToLowerCase(context.documents[i].chunk.content)])
             responseWords == SplitWhitespace(ToLowerCase(response))
             matching == CountMatching(responseWords, contextText)
         IN ReachesRatio(matching, Len(responseWords))

(***************************************************************************)
(* RAGEngine: configuration and inputs                                     *)
(***************************************************************************)
MaxIterations == 5

MaxContextTokens == 4000

DefaultTopK == 5

\* bound: hits one retrieve call returns
MaxHits == 2

\* bound: lines of one expand / decompose generation
MaxLines == 2

CallIds == {"c1"}

QueryTexts == {"q", "r", "s"}

ParisText == <<"P","a","r","i","s">>

CityText == <<"c","i","t","y">>

GroundedAnswer == <<"p","a","r","i","s">>

UngroundedAnswer == <<"r","o","m","e">>

Answers == {Sentinel, GroundedAnswer, UngroundedAnswer}

\* RetrievedDocument {chunk, score, source}; scores in tenths
Hit(id, score, content) ==
    [chunk |-> [id |-> id, content |-> content, tokenCount |-> CountTokens(content)],
     score |-> score, source |-> id]

Hits == {Hit("k1", 9, ParisText), Hit("k1", 8, ParisText),
         Hit("k2", 8, CityText), Hit("k3", 7, CityText)}

\* the hits above the score threshold that a retrieve call finds, which
\* Retriever.retrieve sorts by score, descending
HitLists ==
    {l \in UNION {[1..n -> Hits] : n \in 0..MaxHits} :
        \A i \in 1..(Len(l) - 1) : l[i].score >= l[i + 1].score}

LineLists == UNION {[1..n -> QueryTexts \cup {""}] : n \in 0..MaxLines}

\* AgentConfig values tried: queryTransformation flags and maxExpansions,
\* retrieval.topK (0: not configured), retrieval.compression strategy
Configs ==
    {[rewrite |-> FALSE, expand |-> FALSE, decompose |-> FALSE, hyde |-> FALSE,
      maxExpansions |-> 3, topK |-> 0, compression |-> "none"],
     [rewrite |-> TRUE, expand |-> FALSE, decompose |-> TRUE, hyde |-> FALSE,
      maxExpansions |-> 3, topK |-> 1, compression |-> "none"],
     [rewrite |-> FALSE, expand |-> FALSE, decompose |-> FALSE, hyde |-> TRUE,
      maxExpansions |-> 3, topK |-> 1, compression |-> "llm"],
     [rewrite |-> FALSE, expand |-> TRUE, decompose |-> FALSE, hyde |-> FALSE,
      maxExpansions |-> 1, topK |-> 0, compression |-> "embeddings"]}

\* options?.topK || this.config.retrieval?.topK || 5   (no per-call option is passed)
TopK == IF cfg.topK = 0 THEN DefaultTopK ELSE cfg.topK

(***************************************************************************)
(* RAGEngine: query transformation, merge and cap                          *)
(***************************************************************************)
RECURSIVE FilterNonEmpty(_)
FilterNonEmpty(lines) ==
    IF lines = <<>> THEN <<>>
    ELSE IF lines[1] = "" THEN FilterNonEmpty(Tail(lines))
    ELSE <<lines[1]>> \o FilterNonEmpty(Tail(lines))

\* Array.from(new Set(list)): first occurrences, in order
RECURSIVE Unique(_, _)
Unique(list, seen) ==
    IF list = <<>> THEN <<>>
    ELSE IF list[1] \in seen THEN Unique(Tail(list), seen)
    ELSE <<list[1]>> \o Unique(Tail(list), seen \cup {list[1]})

\* searchQueries[0] || query
FirstOr(searchQueries, query) ==
    IF searchQueries # <<>> /\ searchQueries[1] # "" THEN searchQueries[1] ELSE query

\* QueryTransformer.expand: [query, ...expansions].slice(0, maxExpansions + 1)
ExpandQuery(query, lines, maxExpansions) ==
    SliceTo(<<query>> \o FilterNonEmpty(lines), maxExpansions + 1)

\* QueryTransformer.decompose: subQuestions.length > 0 ? subQuestions : [query]
DecomposeQuery(query, lines) ==
    IF FilterNonEmpty(lines) # <<>> THEN FilterNonEmpty(lines) ELSE <<query>>

RECURSIVE Flatten(_)
Flatten(lists) ==
    IF lists = <<>> THEN <<>> ELSE lists[1] \o Flatten(Tail(lists))

\* the loop over docList / doc with seenIds, the lists taken in the given order
RECURSIVE KeepFirstSeen(_, _)
KeepFirstSeen(docs, seenIds) ==
    IF docs = <<>> THEN <<>>
    ELSE IF docs[1].chunk.id \in seenIds THEN KeepFirstSeen(Tail(docs), seenIds)
    ELSE <<docs[1]>> \o KeepFirstSeen(Tail(docs), seenIds \cup {docs[1].chunk.id})

\* a plausible slip: no seenIds test, every hit of every list is kept
MergeKeepsAll(lists) == Flatten(lists)

\* allDocs after the merge loop over `results`
MergeResults(lists) == KeepFirstSeen(Flatten(lists), {})

\* position of d in a list sorted by score descending, after its equals (stable)
RECURSIVE InsertByScore(_, _)
InsertByScore(sorted, d) ==
    IF sorted = <<>> THEN <<d>>
    ELSE IF sorted[1].score >= d.score
           THEN <<sorted[1]>> \o InsertByScore(Tail(sorted), d)
           ELSE <<d>> \o sorted

\* Array.prototype.sort((a, b) => b.score - a.score), a stable sort
RECURSIVE SortByScoreDesc(_)
SortByScoreDesc(docs) ==
    IF docs = <<>> THEN <<>>
    ELSE InsertByScore(SortByScoreDesc(SubSeq(docs, 1, Len(docs) - 1)), docs[Len(docs)])

\* allDocs.sort(...).slice(0, topK * 2)
CapPool(allDocs, topK) == SliceTo(SortByScoreDesc(allDocs), topK * 2)

\* a plausible slip: the lists are merged in the order the tasks completed
ResultsInCompletionOrder(c) == [i \in 1..Len(c.order) |-> c.results[c.order[i]].docs]

\* Promise.all(retrievalPromises): the values in the order of the promises
ResultsInIssueOrder(c) == [i \in 1..Len(c.results) |-> c.results[i].docs]

(***************************************************************************)
(* RAGEngine: the local variables of one invocation                        *)
(***************************************************************************)
NoResponse == [content |-> <<>>, toolCalls |-> <<>>]

NoContext == [query |-> "", documents |-> <<>>, history |-> 0]

NoRAGResponse == [answer |-> <<>>, sources |-> <<>>, contextSufficient |-> FALSE]

IdleCall ==
    [impl |-> "", method |-> "", pc |-> "idle", sessionId |-> None, query |-> "",
     history |-> <<>>, historyLive |-> FALSE, historyArray |-> 0,
     historyNow |-> <<>>, historyAtBuild |-> <<>>,
     searchQueries |-> <<>>, results |-> <<>>, order |-> <<>>,
     retrievedDocs |-> <<>>, context |-> NoContext, messages |-> <<>>,
     iteration |-> 0, generateCalls |-> 0, generated |-> <<>>, lastResponse |-> NoResponse,
     toolSlots |-> <<>>, toolOrder |-> <<>>, toolsExecuted |-> 0,
     finalAnswer |-> <<>>, isGrounded |-> FALSE,
     fullResponse |-> <<>>, streamed |-> <<>>, yielded |-> <<>>,
     response |-> NoRAGResponse, wroteMemory |-> FALSE]

\* the two RAGEngine sources and their entry points
Variants ==
    {[impl |-> "rag-engine.ts", method |-> "query"],
     [impl |-> "rag-engine.ts", method |-> "queryStream"],
     [impl |-> "part_003", method |-> "query"],
     [impl |-> "part_003", method |-> "queryStream"]}

\* a one-character query string as text
AsText(q) == IF q = "" THEN <<>> ELSE <<q>>

UserMessage(query) == [role |-> "user", content |-> AsText(query)]

AssistantMessage(content) == [role |-> "assistant", content |-> content]

\* sources: retrievedDocs.map(doc => ({content, source, score}))
Sources(docs) ==
    [i \in 1..Len(docs) |->
        [content |-> docs[i].chunk.content, source |-> docs[i].source, score |-> docs[i].score]]

InsufficientResponse ==
    [answer |-> Sentinel, sources |-> <<>>, contextSufficient |-> FALSE]

\* buildMessages(context): the system prompt with the documents, then the query;
\* a history is rendered only when context.history is a non-empty list, and build
\* leaves the number it was passed third there
BuildMessages(context) ==
    <<[role |-> "system", content |-> Sources(context.documents), toolCalls |-> <<>>, toolCallId |-> None],
      [role |-> "user", content |-> AsText(context.query), toolCalls |-> <<>>, toolCallId |-> None]>>

\* which transformation stages an entry point has: _queryStreamInternal of part_003
\* rewrites only
HasStage(r, stage) ==
    CASE stage = "rewrite" -> cfg.rewrite
      [] stage = "expand" -> cfg.expand /\ ~(r.impl = "part_003" /\ r.method = "queryStream")
      [] stage = "decompose" -> cfg.decompose /\ ~(r.impl = "part_003" /\ r.method = "queryStream")

\* searchQueries.map(async q => ...): one pending retrieval task per search query
EnterRetrieve(r) ==
    [r EXCEPT !.pc = "retrieve",
              !.results = [i \in 1..Len(r.searchQueries) |-> [done |-> FALSE, docs |-> <<>>]],
              !.order = <<>>]

\* the next await after the given stage
Advance(r, stage) ==
    IF stage = "start" /\ HasStage(r, "rewrite") THEN [r EXCEPT !.pc = "rewrite"]
    ELSE IF stage \in {"start", "rewrite"} /\ HasStage(r, "expand") THEN [r EXCEPT !.pc = "expand"]
    ELSE IF stage \in {"start", "rewrite", "expand"} /\ HasStage(r, "decompose")
           THEN [r EXCEPT !.pc = "decompose"]
    ELSE EnterRetrieve(r)

SetCall(c, r) == calls' = [calls EXCEPT ![c] = r]

MemoryUnchanged == UNCHANGED <<memories, added>>

EngineFrame == UNCHANGED <<maxMessages, tools, toolRun, buildRun, cfg, runVars, storeVars, otherRuns>>

\* which array object the Map holds for a session: addMessage pushes onto the
\* array it finds and replaces it by a slice only when the push made it longer
\* than maxMessages, so the arrays of a session are numbered by the pushes
\* that overflowed
ArrayOf(sessionId) ==
    IF Len(added[sessionId]) > maxMessages THEN 1 + Len(added[sessionId]) - maxMessages ELSE 1

\* query(query, {sessionId}) / queryStream(query, {sessionId}) up to the first
\* await: getHistory returns the array of the Map itself, or a new empty array
\* for a session the Map does not hold
StartWith(c, v, sessionId, query) ==
    /\ calls[c].pc = "idle"
    /\ LET live == sessionId # None /\ sessionId \in DOMAIN memories
           read == IF sessionId # None THEN GetHistory(memories, sessionId) ELSE <<>>
           r == [IdleCall EXCEPT
                    !.impl = v.impl, !.method = v.method,
                    !.sessionId = sessionId, !.query = query,
                    !.history = read,
                    !.historyLive = live,
                    !.historyArray = IF live THEN ArrayOf(sessionId) ELSE 0,
                    !.historyNow = read,
                    !.searchQueries = <<query>>]
       IN SetCall(c, Advance(r, "start"))
    /\ MemoryUnchanged
    /\ EngineFrame

Start(c, v, sessionId) == StartWith(c, v, sessionId, "q")

\* await this.queryTransformer.rewrite(query) resolves
Rewrite(c, rewritten) ==
    /\ calls[c].pc = "rewrite"
    /\ SetCall(c, Advance([calls[c] EXCEPT !.searchQueries = <<rewritten>>], "rewrite"))
    /\ MemoryUnchanged
    /\ EngineFrame

\* await this.queryTransformer.expand(searchQueries[0] || query, maxExpansions) resolves
Expand(c, lines) ==
    /\ calls[c].pc = "expand"
    /\ LET r == calls[c]
           expanded == ExpandQuery(FirstOr(r.searchQueries, r.query), lines, cfg.maxExpansions)
       IN SetCall(c, Advance([r EXCEPT !.searchQueries = Unique(@ \o expanded, {})], "expand"))
    /\ MemoryUnchanged
    /\ EngineFrame

\* await this.queryTransformer.decompose(searchQueries[0] || query) resolves
Decompose(c, lines) ==
    /\ calls[c].pc = "decompose"
    /\ LET r == calls[c]
           decomposed == DecomposeQuery(FirstOr(r.searchQueries, r.query), lines)
       IN SetCall(c, Advance([r EXCEPT !.searchQueries = Unique(@ \o decomposed, {})], "decompose"))
    /\ MemoryUnchanged
    /\ EngineFrame

\* Retriever.retrieve(query, topK, scoreThreshold): the hits found, at most topK
RetrieveTopK(found, topK) == SliceTo(found, topK)

\* the i-th retrieval task resolves (after its HyDE generation, if configured):
\* `found` is what the store holds for the query text the task searched with
RetrieveDone(c, i, found) ==
    /\ calls[c].pc = "retrieve"
    /\ i \in 1..Len(calls[c].results)
    /\ ~calls[c].results[i].done
    /\ SetCall(c, [calls[c] EXCEPT
           !.results[i] = [done |-> TRUE, docs |-> RetrieveTopK(found, TopK)],
           !.order = Append(@, i)])
    /\ MemoryUnchanged
    /\ EngineFrame

FailurePointsAndWrites ==
    {"rewrite", "expand", "decompose", "retrieve", "compress", "generate", "stream", "persist"}

\* the awaits of an invocation that wait for a capability: the query
\* transformer, the retriever, the compressor, generate and generateStream
FailurePoints ==
    {"rewrite", "expand", "decompose", "retrieve", "compress", "generate", "stream"}

\* a capability call the invocation is waiting for rejects: the invocation throws
Fail(c) ==
    /\ calls[c].pc \in FailurePoints
    /\ SetCall(c, [calls[c] EXCEPT !.pc = "failed"])
    /\ MemoryUnchanged
    /\ EngineFrame

(***************************************************************************)
(* RAGEngine: compression, sufficiency check, generation loop, persistence *)
(***************************************************************************)
IrrelevantText == <<"I","R","R","E","L","E","V","A","N","T">>

DistilledTexts == {IrrelevantText, <<>>, CityText}

\* bound: fragments of one generateStream
MaxChunks == 2

StreamChunks == {GroundedAnswer, UngroundedAnswer}

\* the registry the engine is constructed with
EngineTools ==
    [name \in {"t1", "t2"} |->
        IF name = "t1" THEN [kind |-> "resolve", value |-> <<"r", "1">>]
                       ELSE [kind |-> "rejectError", value |-> "m1"]]

\* responses of llmProvider.generate(messages, {tools}): without tool calls, or
\* asking for one tool, for two tools, or for a tool that is not registered
LLMResponses ==
    {[content |-> a, toolCalls |-> <<>>] : a \in Answers}
    \cup {[content |-> GroundedAnswer, toolCalls |-> <<[id |-> "a", name |-> "t1"]>>],
          [content |-> UngroundedAnswer,
           toolCalls |-> <<[id |-> "a", name |-> "t1"], [id |-> "b", name |-> "t2"]>>],
          [content |-> <<>>, toolCalls |-> <<[id |-> "a", name |-> "t9"]>>]}

RECURSIVE DropNulls(_)
DropNulls(list) ==
    IF list = <<>> THEN <<>>
    ELSE IF list[1].dropped THEN DropNulls(Tail(list))
    ELSE <<list[1].doc>> \o DropNulls(Tail(list))

\* {...doc, chunk: {...doc.chunk, content, tokenCount: countTokens(content)}}
WithContent(doc, content) ==
    [doc EXCEPT !.chunk.content = content, !.chunk.tokenCount = CountTokens(content)]

KeepsNonEmpty(distilledContent) == Len(distilledContent) > 0

\* if (distilledContent !== "IRRELEVANT" && distilledContent.length > 0)
KeepsDistilled(distilledContent) ==
    distilledContent # IrrelevantText /\ Len(distilledContent) > 0

\* LLMCompressor.compress: distilled[i] is the generation's content for documents[i]
LLMCompress(documents, distilled) ==
    DropNulls([i \in 1..Len(documents) |->
        LET distilledContent == Trim(distilled[i])
        IN [dropped |-> ~KeepsDistilled(distilledContent),
            doc |-> WithContent(documents[i], distilledContent)]])

\* EmbeddingsCompressor.compress on documents of at most one sentence each
EmbeddingsCompress(documents) == documents

\* a plausible slip: the loop condition admits one more iteration
LoopContinuesInclusive(iteration) == iteration <= MaxIterations

\* while (iteration < maxIterations)
LoopContinues(iteration) == iteration < MaxIterations

\* a plausible slip: an empty pool is packed and sent to generation like any other
IsInsufficientNever(retrievedDocs) == FALSE

\* if (retrievedDocs.length === 0)
IsInsufficient(retrievedDocs) == Len(retrievedDocs) = 0

\* from the sufficiency check to the first generate call
AfterPool(c, r) ==
    IF IsInsufficient(r.retrievedDocs)
      THEN IF r.method = "query"
             THEN SetCall(c, [r EXCEPT !.pc = "done", !.response = InsufficientResponse])
             \* yield "INSUFFICIENT_CONTEXT": the generator is suspended at the yield
             ELSE SetCall(c, [r EXCEPT !.pc = "yieldedSentinel", !.yielded = Append(@, Sentinel)])
      ELSE LET context == BuildContext(r.query, r.retrievedDocs, MaxContextTokens)
           IN SetCall(c, [r EXCEPT !.context = context,
                                   !.historyAtBuild = r.historyNow,
                                   !.messages = BuildMessages(context),
                                   !.iteration = 0,
                                   !.generateCalls = @ + 1,
                                   !.pc = "generate"])

\* await Promise.all(retrievalPromises) resolves: merge, sort, cap, and on without
\* a compressor
Merge(c) ==
    /\ calls[c].pc = "retrieve"
    /\ \A i \in 1..Len(calls[c].results) : calls[c].results[i].done
    /\ LET r == calls[c]
           allDocs == MergeResults(ResultsInIssueOrder(r))
           pooled == [r EXCEPT !.retrievedDocs = CapPool(allDocs, TopK)]
       IN IF cfg.compression # "none"
            THEN SetCall(c, [pooled EXCEPT !.pc = "compress"])
            ELSE AfterPool(c, pooled)
    /\ MemoryUnchanged
    /\ EngineFrame

\* await this.compressor.compress(query, retrievedDocs) resolves (LLMCompressor)
CompressLLM(c, distilled) ==
    /\ calls[c].pc = "compress"
    /\ cfg.compression = "llm"
    /\ DOMAIN distilled = 1..Len(calls[c].retrievedDocs)
    /\ AfterPool(c, [calls[c] EXCEPT !.retrievedDocs = LLMCompress(@, distilled)])
    /\ MemoryUnchanged
    /\ EngineFrame

\* await this.compressor.compress(query, retrievedDocs) resolves (EmbeddingsCompressor)
CompressEmbeddings(c) ==
    /\ calls[c].pc = "compress"
    /\ cfg.compression = "embeddings"
    /\ AfterPool(c, [calls[c] EXCEPT !.retrievedDocs = EmbeddingsCompress(@)])
    /\ MemoryUnchanged
    /\ EngineFrame

\* the generator of queryStream is resumed after yielding the sentinel and returns
ResumeAfterSentinel(c) ==
    /\ calls[c].pc = "yieldedSentinel"
    /\ SetCall(c, [calls[c] EXCEPT !.pc = "done", !.response = InsufficientResponse])
    /\ MemoryUnchanged
    /\ EngineFrame

AddToMemory(sessionId, msg) ==
    /\ memories' = AddMessageTo(memories, maxMessages, sessionId, msg)
    /\ added' = [added EXCEPT ![sessionId] = Append(@, msg)]

\* history.push(message) in addMessage: the invocations that hold the array
\* the Map holds for the session see the message in their history variable
Pushed(r, sessionId, msg) ==
    IF r.historyLive /\ r.sessionId = sessionId /\ r.historyArray = ArrayOf(sessionId)
      THEN [r EXCEPT !.historyNow = Append(@, msg)]
      ELSE r

\* invocation c goes on as r while addMessage(r.sessionId, msg) runs
SetCallAdding(c, r, msg) ==
    calls' = [d \in DOMAIN calls |->
                 Pushed(IF d = c THEN r ELSE calls[d], r.sessionId, msg)]

\* if (!isGrounded && lastResponse.content !== "INSUFFICIENT_CONTEXT"), which
\* only query() of rag-engine.ts has
Downgrades(r, grounded, final) ==
    r.impl = "rag-engine.ts" /\ ~grounded /\ final # Sentinel

\* query(): from verifyGrounding to the await of the first addMessage, or the return
FinishQuery(c, r) ==
    LET final == r.lastResponse.content
        grounded == VerifyGrounding(final, r.context)
        checked == [r EXCEPT !.finalAnswer = final, !.isGrounded = grounded]
    IN IF Downgrades(r, grounded, final)
         THEN /\ SetCall(c, [checked EXCEPT
                    !.pc = "done",
                    !.response = [answer |-> Sentinel,
                                  sources |-> Sources(r.retrievedDocs),
                                  contextSufficient |-> FALSE]])
              /\ MemoryUnchanged
         ELSE IF r.sessionId # None
           THEN /\ AddToMemory(r.sessionId, UserMessage(r.query))
                /\ SetCallAdding(c, [checked EXCEPT !.pc = "persist", !.wroteMemory = TRUE],
                                 UserMessage(r.query))
           ELSE /\ SetCall(c, [checked EXCEPT
                      !.pc = "done",
                      !.response = [answer |-> final,
                                    sources |-> Sources(r.retrievedDocs),
                                    contextSufficient |-> TRUE]])
                /\ MemoryUnchanged

\* after the while loop: query() verifies, queryStream() opens generateStream
AfterLoop(c, r) ==
    IF r.method = "query"
      THEN FinishQuery(c, r)
      ELSE /\ SetCall(c, [r EXCEPT !.pc = "stream"])
           /\ MemoryUnchanged

\* await this.llmProvider.generate(messages, {tools}) resolves
GenerateResponds(c, resp) ==
    /\ calls[c].pc = "generate"
    /\ LET r == [calls[c] EXCEPT !.lastResponse = resp, !.generated = Append(@, resp)]
           n == Len(resp.toolCalls)
           registered == {i \in 1..n : resp.toolCalls[i].name \in DOMAIN tools}
           asked == [r EXCEPT
                       !.messages = Append(@, [role |-> "assistant", content |-> resp.content,
                                               toolCalls |-> resp.toolCalls, toolCallId |-> None]),
                       !.toolsExecuted = @ + Cardinality(registered)]
       IN IF n = 0
            THEN AfterLoop(c, r)
            ELSE /\ IF Cardinality(registered) < n
                      \* executeTool throws "Tool not found": Promise.all rejects
                      THEN SetCall(c, [asked EXCEPT !.pc = "failed"])
                      ELSE SetCall(c, [asked EXCEPT
                               !.pc = "tools",
                               !.toolSlots = [i \in 1..n |-> [done |-> FALSE, content |-> <<>>]],
                               !.toolOrder = <<>>])
                 /\ MemoryUnchanged
    /\ EngineFrame

\* the i-th executeTool of the current batch resolves
ToolCompletes(c, i) ==
    /\ calls[c].pc = "tools"
    /\ i \in 1..Len(calls[c].toolSlots)
    /\ ~calls[c].toolSlots[i].done
    /\ LET r == calls[c]
           result == ExecuteToolOn(tools, r.lastResponse.toolCalls[i].name)
       \* typeof result === "string" ? result : JSON.stringify(result)
       IN SetCall(c, [r EXCEPT !.toolSlots[i] = [done |-> TRUE, content |-> result.value],
                               !.toolOrder = Append(@, i)])
    /\ MemoryUnchanged
    /\ EngineFrame

ToolMessage(r, i) ==
    [role |-> "tool", content |-> r.toolSlots[i].content,
     toolCalls |-> <<>>, toolCallId |-> r.lastResponse.toolCalls[i].id]

\* a plausible slip: the tool messages in the order the tools completed
ToolResultsAsCompleted(r) == [i \in 1..Len(r.toolOrder) |-> ToolMessage(r, r.toolOrder[i])]

\* await Promise.all(toolPromises): the tool messages in the order of the calls
ToolResults(r) == [i \in 1..Len(r.toolSlots) |-> ToolMessage(r, i)]

\* await Promise.all(toolPromises) resolves: push the results, iteration++, loop test
ToolsJoin(c) ==
    /\ calls[c].pc = "tools"
    /\ \A i \in 1..Len(calls[c].toolSlots) : calls[c].toolSlots[i].done
    /\ LET r == calls[c]
           toolResults == ToolResults(r)
           looped == [r EXCEPT !.messages = @ \o toolResults,
                               !.iteration = @ + 1,
                               !.toolSlots = <<>>]
       IN IF LoopContinues(looped.iteration)
            THEN /\ SetCall(c, [looped EXCEPT !.pc = "generate", !.generateCalls = @ + 1])
                 /\ MemoryUnchanged
            ELSE AfterLoop(c, looped)
    /\ EngineFrame

AccumulateLatest(fullResponse, chunk) == chunk

\* fullResponse += chunk
Accumulate(fullResponse, chunk) == fullResponse \o chunk

\* generateStream yields a fragment: fullResponse += chunk; yield chunk
StreamChunk(c, chunk) ==
    /\ calls[c].pc = "stream"
    /\ Len(calls[c].streamed) < MaxChunks
    /\ SetCall(c, [calls[c] EXCEPT !.fullResponse = Accumulate(@, chunk),
                                   !.streamed = Append(@, chunk),
                                   !.yielded = Append(@, chunk)])
    /\ MemoryUnchanged
    /\ EngineFrame

StreamPersistsGrounded(sessionId, grounded) == sessionId # None /\ grounded

\* if (sessionId), after the stream and whatever verifyGrounding returned
StreamPersists(sessionId, grounded) == sessionId # None

\* generateStream is exhausted: verifyGrounding, then the first addMessage or the return
StreamEnd(c) ==
    /\ calls[c].pc = "stream"
    /\ LET r == calls[c]
           grounded == VerifyGrounding(r.fullResponse, r.context)
           checked == [r EXCEPT !.finalAnswer = r.fullResponse, !.isGrounded = grounded]
       IN IF StreamPersists(r.sessionId, grounded)
            THEN /\ AddToMemory(r.sessionId, UserMessage(r.query))
                 /\ SetCallAdding(c, [checked EXCEPT !.pc = "persist", !.wroteMemory = TRUE],
                                  UserMessage(r.query))
            ELSE /\ SetCall(c, [checked EXCEPT
                       !.pc = "done",
                       !.response = [answer |-> r.fullResponse,
                                     sources |-> Sources(r.retrievedDocs),
                                     contextSufficient |-> grounded]])
                 /\ MemoryUnchanged
    /\ EngineFrame

\* the await of the first addMessage resolves: second addMessage, then the return
Persist(c) ==
    /\ calls[c].pc = "persist"
    /\ LET r == calls[c]
       IN /\ AddToMemory(r.sessionId, AssistantMessage(r.finalAnswer))
          /\ SetCallAdding(c, [r EXCEPT
                 !.pc = "done",
                 !.response = [answer |-> r.finalAnswer,
                               sources |-> Sources(r.retrievedDocs),
                               contextSufficient |->
                                   IF r.method = "query" THEN TRUE ELSE r.isGrounded]],
                 AssistantMessage(r.finalAnswer))
    /\ EngineFrame

(***************************************************************************)
(* Retriever.retrieve                                                      *)
(***************************************************************************)
baseVars == <<maxMessages, memories, added, tools, toolRun, buildRun, engineVars>>

\* this.config?.strategy || "vector"
DefaultStrategy == "vector"

\* retrieve(query, topK = 5, scoreThreshold = 0.7); scores are in hundredths
DefaultRetrieveTopK == 5

DefaultScoreThreshold == 70

\* Math.max(topK * 4, 20)
RerankFactor == 4

RerankMinCandidates == 20

StoreChunk(id, documentId, parentId) ==
    [id |-> id, documentId |-> documentId, parentId |-> parentId, content |-> <<"chunk", id>>]

\* the chunks the search backend holds: k3 names d1 as its parent
BackendChunks ==
    {StoreChunk("k1", "d1", None), StoreChunk("k2", "d2", None), StoreChunk("k3", "d2", "d1")}

BackendScores == {60, 75, 90}

\* what vectorStore.search can answer: scored chunks, each chunk at most once
SearchResults ==
    {l \in UNION {[1..n -> [chunk : BackendChunks, score : BackendScores]] :
                     n \in 0..Cardinality(BackendChunks)} :
        \A i, j \in 1..Len(l) : i # j => l[i].chunk.id # l[j].chunk.id}

\* what reranker.rerank can answer: {index, score} over the chunks handed to it
RerankAnswers ==
    {<<>>, <<[index |-> 0, score |-> 75]>>,
     <<[index |-> 1, score |-> 60], [index |-> 0, score |-> 90]>>}

\* contents of the document store: nothing, or the parent document d1
ParentStores == {<<>>, [d \in {"d1"} |-> <<"document", d>>]}

RetrieveInputs ==
    [strategy : {None, "vector", "hybrid", "keyword"},
     embedOutcome : {"vector", "none", "reject"},
     topK : {0, 1, 2},
     scoreThreshold : {0, 75},
     hasReranker : BOOLEAN,
     hasDocStore : BOOLEAN]

\* a plausible slip: the threshold itself is excluded
PassesThresholdStrictly(score, scoreThreshold) == score > scoreThreshold

\* result.score >= scoreThreshold
PassesThreshold(score, scoreThreshold) == score >= scoreThreshold

RECURSIVE FilterByThreshold(_, _)
FilterByThreshold(list, scoreThreshold) ==
    IF list = <<>> THEN <<>>
    ELSE IF PassesThreshold(list[1].score, scoreThreshold)
           THEN <<list[1]>> \o FilterByThreshold(Tail(list), scoreThreshold)
           ELSE FilterByThreshold(Tail(list), scoreThreshold)

\* {chunk, score, source: chunk.metadata.source || "unknown"}
ToRetrieved(chunk, score) == [chunk |-> chunk, score |-> score, source |-> "unknown"]

\* results.filter(...).map(...).sort((a, b) => b.score - a.score).slice(0, topK)
RetrievePlain(results, topK, scoreThreshold) ==
    LET filtered == FilterByThreshold(results, scoreThreshold)
        mapped == [i \in 1..Len(filtered) |-> ToRetrieved(filtered[i].chunk, filtered[i].score)]
    IN SliceTo(SortByScoreDesc(mapped), topK)

\* rerankedResults.map(r => ({chunk: chunks[r.index], score: r.score, ...})).filter(...)
RetrieveReranked(results, reranked, scoreThreshold) ==
    FilterByThreshold([i \in 1..Len(reranked) |->
                          ToRetrieved(results[reranked[i].index + 1].chunk, reranked[i].score)],
                      scoreThreshold)

ParentIdIsDocument(chunk) == chunk.documentId

\* res.chunk.metadata.parentId || res.chunk.documentId
ParentIdOf(chunk) == IF chunk.parentId # None THEN chunk.parentId ELSE chunk.documentId

\* the parent-document loop: one result per parent id, with the parent's content
\* when the document store has it
RECURSIVE ParentResults(_, _, _)
ParentResults(retrieved, store, seenParentIds) ==
    IF retrieved = <<>> THEN <<>>
    ELSE LET res == retrieved[1]
             parentId == ParentIdOf(res.chunk)
         IN IF parentId \in seenParentIds
              THEN ParentResults(Tail(retrieved), store, seenParentIds)
              ELSE <<IF parentId \in DOMAIN store
                       THEN [res EXCEPT !.chunk.content = store[parentId]]
                       ELSE res>>
                   \o ParentResults(Tail(retrieved), store, seenParentIds \cup {parentId})

RetrieveThrow(message, embedCalled) ==
    [kind |-> "throw", error |-> message, embedCalled |-> embedCalled,
     searchCalled |-> FALSE, searchVector |-> FALSE, searchQuery |-> FALSE, searchK |-> 0,
     docs |-> <<>>]

\* Retriever.retrieve(query, topK, scoreThreshold) of a retriever configured as
\* `in` says, against a backend answering `results` (and a reranker answering
\* `reranked`, a document store holding `store`)
RetrieveOn(in, results, reranked, store) ==
    LET strategy == IF in.strategy = None THEN DefaultStrategy ELSE in.strategy
        topK == IF in.topK = 0 THEN DefaultRetrieveTopK ELSE in.topK
        scoreThreshold == IF in.scoreThreshold = 0 THEN DefaultScoreThreshold
                          ELSE in.scoreThreshold
        needsEmbedding == strategy = "vector" \/ strategy = "hybrid"
        queryEmbedding == needsEmbedding /\ in.embedOutcome = "vector"
        initialK == IF in.hasReranker
                      THEN (IF topK * RerankFactor >= RerankMinCandidates
                              THEN topK * RerankFactor ELSE RerankMinCandidates)
                      ELSE topK
        retrieved == RetrievePlain(results, topK, scoreThreshold)
    IN IF needsEmbedding /\ in.embedOutcome = "reject"
         THEN RetrieveThrow("embed rejected", TRUE)
       ELSE IF needsEmbedding /\ ~queryEmbedding /\ strategy = "vector"
         THEN RetrieveThrow("Failed to generate query embedding for vector search", TRUE)
       ELSE [kind |-> "ok", error |-> None, embedCalled |-> needsEmbedding,
             searchCalled |-> TRUE, searchVector |-> queryEmbedding,
             searchQuery |-> (strategy = "keyword" \/ strategy = "hybrid"),
             searchK |-> initialK,
             docs |-> IF in.hasReranker /\ Len(results) > 0
                        THEN RetrieveReranked(results, reranked, scoreThreshold)
                      ELSE IF in.hasDocStore /\ Len(retrieved) > 0
                        THEN ParentResults(retrieved, store, {})
                      ELSE retrieved]

Retrieve(in, results, reranked, store) ==
    /\ ~retrieveRun.done
    /\ \A i \in 1..Len(reranked) : reranked[i].index < Len(results)
    /\ in.hasReranker \/ reranked = <<>>
    /\ in.hasDocStore \/ store = <<>>
    /\ retrieveRun' = [done |-> TRUE, input |-> in, results |-> results,
                       reranked |-> reranked, store |-> store,
                       outcome |-> RetrieveOn(in, results, reranked, store)]
    /\ UNCHANGED <<baseVars, chunkRun, groundRun, expandRun, storeVars, otherRuns>>

(***************************************************************************)
(* QueryTransformer.expand on the text of the generation                   *)
(***************************************************************************)

\* longest generation content tried, in characters
MaxContentLen == 5

ContentChars == {"a", "b", " ", "\n"}

Contents == UNION {[1..n -> ContentChars] : n \in 0..MaxContentLen}

ExpandQueries == {<<>>, <<"q">>, <<" ", "q">>}

ExpansionLimits == {1, 2, 3}

\* String.prototype.split("\n"): every newline ends a piece, the piece after
\* the last newline is always emitted
RECURSIVE SplitLinesFrom(_, _, _)
SplitLinesFrom(s, piece, pieces) ==
    IF s = <<>>
      THEN Append(pieces, piece)
      ELSE IF s[1] = "\n"
             THEN SplitLinesFrom(Tail(s), <<>>, Append(pieces, piece))
             ELSE SplitLinesFrom(Tail(s), Append(piece, s[1]), pieces)

SplitLines(s) == SplitLinesFrom(s, <<>>, <<>>)

\* .map(line => line.trim())
TrimLines(lines) == [i \in 1..Len(lines) |-> Trim(lines[i])]

KeepsEveryLine(line) == TRUE

\* .filter(line => line.length > 0)
KeepsLine(line) == Len(line) > 0

RECURSIVE FilterLines(_)
FilterLines(lines) ==
    IF lines = <<>> THEN <<>>
    ELSE IF KeepsLine(lines[1]) THEN <<lines[1]>> \o FilterLines(Tail(lines))
    ELSE FilterLines(Tail(lines))

\* QueryTransformer.expand(query, maxExpansions) when generate resolves to content
ExpandText(query, content, maxExpansions) ==
    LET expansions == FilterLines(TrimLines(SplitLines(content)))
    IN SliceTo(<<query>> \o expansions, maxExpansions + 1)

ExpandCall(query, content, maxExpansions) ==
    /\ ~expandRun.done
    /\ expandRun' = [done |-> TRUE, query |-> query, content |-> content,
                     maxExpansions |-> maxExpansions,
                     result |-> ExpandText(query, content, maxExpansions)]
    /\ UNCHANGED <<baseVars, retrieveRun, chunkRun, groundRun, storeVars, otherRuns>>

(***************************************************************************)
(* ContextBuilder.verifyGrounding on its own                               *)
(***************************************************************************)

\* most words of an enumerated answer
MaxWords == 3

RomeText == <<"r","o","m","e">>

GroundWords == {GroundedAnswer, RomeText, <<"a">>, <<"C","i","t","y">>}

WordLists == UNION {[1..n -> GroundWords] : n \in 0..MaxWords}

\* one matching word in four, and three matching words in ten
QuarterAnswer == JoinSpace(<<<<"a">>, <<"a">>, <<"a">>, GroundedAnswer>>)

ThreeTenthsAnswer ==
    JoinSpace([i \in 1..10 |-> IF i <= 3 THEN GroundedAnswer ELSE <<"a">>])

PaddedSentinel == <<" ">> \o Sentinel \o <<"\n">>

GroundResponses ==
    {JoinSpace(words) : words \in WordLists}
      \cup {Sentinel, PaddedSentinel, ToLowerCase(Sentinel),
            Sentinel \o <<" ">> \o GroundedAnswer,
            <<" ">> \o GroundedAnswer, QuarterAnswer, ThreeTenthsAnswer}

GroundContents == {ParisText, CityText}

GroundContexts ==
    {BuildContext("q", [i \in 1..Len(contents) |-> Hit("k1", 9, contents[i])], 0) :
        contents \in UNION {[1..n -> GroundContents] : n \in 0..2}}

VerifyGroundingCall(response, context) ==
    /\ ~groundRun.done
    /\ groundRun' = [done |-> TRUE, response |-> response, context |-> context,
                     grounded |-> VerifyGrounding(response, context)]
    /\ UNCHANGED <<baseVars, retrieveRun, chunkRun, expandRun, storeVars, otherRuns>>

(***************************************************************************)
(* DocumentProcessor: countTokens and the three chunking strategies        *)
(***************************************************************************)

\* most fragments of an enumerated document
MaxFragments == 5

\* most iterations of the fixed-size loop that are followed
MaxSteps == 4

FallbackMinTokens == 100

Fragments == {<<"a">>, <<"a","a","a","a">>, <<" ">>, <<".">>, <<"\n">>}

RECURSIVE Concat(_)
Concat(parts) == IF parts = <<>> THEN <<>> ELSE parts[1] \o Concat(Tail(parts))

Documents == {Concat(parts) : parts \in UNION {[1..n -> Fragments] : n \in 0..MaxFragments}}

Strategies == {"fixed", "semantic", "recursive"}

\* ChunkingOptions after the defaults are merged in
ChunkingOptions == [maxTokens : {1, 2, 4}, overlap : {0, 2}, minTokens : {0, 1, 2}]

\* Math.floor(tokens * 0.75)
ThreeQuarters(tokens) == (3 * tokens) \div 4

\* Array.prototype.slice(start, end) with zero-based indexes: a negative index
\* counts from the end
SliceIndex(list, index) ==
    IF index < 0 THEN (IF Len(list) + index < 0 THEN 0 ELSE Len(list) + index)
    ELSE Min(index, Len(list))

Slice(list, start, end) == SubSeq(list, SliceIndex(list, start) + 1, SliceIndex(list, end))

\* Array.prototype.join(separator)
RECURSIVE JoinWith(_, _)
JoinWith(parts, separator) ==
    IF parts = <<>> THEN <<>>
    ELSE IF Len(parts) = 1 THEN parts[1]
    ELSE parts[1] \o separator \o JoinWith(Tail(parts), separator)

\* .filter(s => s.trim().length > 0)
RECURSIVE FilterInk(_)
FilterInk(pieces) ==
    IF pieces = <<>> THEN <<>>
    ELSE IF Len(Trim(pieces[1])) > 0 THEN <<pieces[1]>> \o FilterInk(Tail(pieces))
    ELSE FilterInk(Tail(pieces))

SentenceEnds == {".", "!", "?"}

RECURSIVE SkipSentenceEnds(_)
SkipSentenceEnds(s) ==
    IF s # <<>> /\ s[1] \in SentenceEnds THEN SkipSentenceEnds(Tail(s)) ELSE s

\* String.prototype.split(/[.!?]+\s+/): a run of sentence ends followed by a
\* run of whitespace ends the current piece
RECURSIVE SplitSentencesFrom(_, _, _)
SplitSentencesFrom(s, piece, pieces) ==
    IF s = <<>>
      THEN Append(pieces, piece)
      ELSE LET after == SkipSentenceEnds(s)
           IN IF s[1] \in SentenceEnds /\ after # <<>> /\ after[1] \in Whitespace
                THEN SplitSentencesFrom(TrimStart(after), <<>>, Append(pieces, piece))
                ELSE IF s[1] \in SentenceEnds
                       \* the run is not followed by whitespace: it stays in the piece
                       THEN SplitSentencesFrom(after,
                                piece \o SubSeq(s, 1, Len(s) - Len(after)), pieces)
                       ELSE SplitSentencesFrom(Tail(s), Append(piece, s[1]), pieces)

SplitSentences(s) == SplitSentencesFrom(s, <<>>, <<>>)

RECURSIVE SkipNewlines(_)
SkipNewlines(s) ==
    IF s # <<>> /\ s[1] = "\n" THEN SkipNewlines(Tail(s)) ELSE s

\* String.prototype.split(/\n\n+/): a run of two or more newlines ends the
\* current piece
RECURSIVE SplitParagraphsFrom(_, _, _)
SplitParagraphsFrom(s, piece, pieces) ==
    IF s = <<>>
      THEN Append(pieces, piece)
      ELSE IF Len(s) >= 2 /\ s[1] = "\n" /\ s[2] = "\n"
             THEN SplitParagraphsFrom(SkipNewlines(s), <<>>, Append(pieces, piece))
             ELSE SplitParagraphsFrom(Tail(s), Append(piece, s[1]), pieces)

SplitParagraphs(s) == SplitParagraphsFrom(s, <<>>, <<>>)

DocumentChunk(content, position, tokenCount, strategy) ==
    [content |-> content, position |-> position, tokenCount |-> tokenCount,
     chunkStrategy |-> strategy]

\* the loop over sentences (or over the lines of a paragraph): the pieces
\* collected so far are emitted when the next one would pass maxTokens; the
\* rest is emitted after the loop
RECURSIVE PackPieces(_, _, _, _, _, _, _, _)
PackPieces(pieces, currentChunk, currentTokens, position, maxTokens, separator, ending, strategy) ==
    IF pieces = <<>>
      THEN IF Len(currentChunk) > 0
             THEN LET content == JoinWith(currentChunk, separator) \o ending
                  IN <<DocumentChunk(content, position, CountTokens(content), strategy)>>
             ELSE <<>>
      ELSE LET pieceTokens == CountTokens(pieces[1])
           IN IF currentTokens + pieceTokens > maxTokens /\ Len(currentChunk) > 0
                THEN LET content == JoinWith(currentChunk, separator) \o ending
                     IN <<DocumentChunk(content, position, CountTokens(content), strategy)>>
                          \o PackPieces(Tail(pieces), <<pieces[1]>>, pieceTokens, position + 1,
                                        maxTokens, separator, ending, strategy)
                ELSE PackPieces(Tail(pieces), Append(currentChunk, pieces[1]),
                                currentTokens + pieceTokens, position,
                                maxTokens, separator, ending, strategy)

\* semanticChunking(document)
SemanticChunking(content, options) ==
    PackPieces(FilterInk(SplitSentences(content)), <<>>, 0, 0,
               options.maxTokens, <<".", " ">>, <<".">>, "semantic")

\* recursiveChunking(document): a paragraph that fits is one chunk, a longer
\* one is packed line by line
RECURSIVE RecursiveParagraphs(_, _, _)
RecursiveParagraphs(paragraphs, position, maxTokens) ==
    IF paragraphs = <<>> THEN <<>>
    ELSE LET paragraph == paragraphs[1]
             tokens == CountTokens(paragraph)
             emitted ==
                 IF tokens <= maxTokens
                   THEN <<DocumentChunk(paragraph, position, tokens, "recursive")>>
                   ELSE PackPieces(FilterInk(SplitLines(paragraph)), <<>>, 0, position,
                                   maxTokens, <<"\n">>, <<>>, "recursive")
         IN emitted \o RecursiveParagraphs(Tail(paragraphs), position + Len(emitted), maxTokens)

RecursiveChunking(content, options) ==
    RecursiveParagraphs(FilterInk(SplitParagraphs(content)), 0, options.maxTokens)

\* if (tokenCount >= (this.options.minTokens || 100))
MeetsMinimum(tokenCount, options) ==
    tokenCount >= (IF options.minTokens = 0 THEN FallbackMinTokens ELSE options.minTokens)

\* if (startIdx >= words.length || endIdx === words.length) break
FixedLoopBreaks(startIdx, endIdx, words) ==
    startIdx >= Len(words) \/ endIdx = Len(words)

\* process(document, strategy): semantic and recursive chunking run to their
\* end, fixed-size chunking enters its loop
Process(content, options, strategy) ==
    /\ chunkRun.pc = "idle"
    /\ chunkRun' =
         [pc |-> IF strategy = "fixed" THEN "loop" ELSE "done",
          strategy |-> strategy, content |-> content, options |-> options,
          words |-> SplitWhitespace(content), startIdx |-> 0, endIdx |-> 0,
          position |-> 0, steps |-> 0,
          chunks |-> IF strategy = "semantic" THEN SemanticChunking(content, options)
                     ELSE IF strategy = "recursive" THEN RecursiveChunking(content, options)
                     ELSE <<>>]
    /\ UNCHANGED <<baseVars, retrieveRun, groundRun, expandRun, storeVars, otherRuns>>

\* one iteration of the while loop of fixedSizeChunking
FixedStep ==
    /\ chunkRun.pc = "loop"
    /\ chunkRun.steps < MaxSteps
    /\ LET r == chunkRun
           tokensToWords == ThreeQuarters(r.options.maxTokens)
           endIdx == Min(r.startIdx + tokensToWords, Len(r.words))
           content == JoinSpace(Slice(r.words, r.startIdx, endIdx))
           tokenCount == CountTokens(content)
           emits == MeetsMinimum(tokenCount, r.options)
           overlapWords == ThreeQuarters(r.options.overlap)
           startIdx == endIdx - overlapWords
       IN chunkRun' =
            [r EXCEPT
               !.chunks = IF emits
                            THEN Append(@, DocumentChunk(content, r.position, tokenCount, "fixed"))
                            ELSE @,
               !.position = IF emits THEN @ + 1 ELSE @,
               !.startIdx = startIdx,
               !.endIdx = endIdx,
               !.steps = @ + 1,
               !.pc = IF FixedLoopBreaks(startIdx, endIdx, r.words) \/ ~(startIdx < Len(r.words))
                        THEN "done" ELSE "loop"]
    /\ UNCHANGED <<baseVars, retrieveRun, groundRun, expandRun, storeVars, otherRuns>>

(***************************************************************************)
(* Ingest, deleteDocuments and retrieve over the in-memory stores          *)
(***************************************************************************)

\* most entries of the vector store
MaxStored == 3

DocIds == {"d1", "d2"}

\* Document.content of the document with the given id
DocumentContent(id) == <<"document", id>>

\* the chunks documentProcessor.process makes of a document: d2 names d1 as
\* its parent in its metadata
ChunksOf(id) ==
    IF id = "d1" THEN <<StoreChunk("k1", "d1", None), StoreChunk("k2", "d1", None)>>
    ELSE <<StoreChunk("k3", "d2", "d1")>>

IdleStore(hasDocStore) ==
    [pc |-> "idle", hasDocStore |-> hasDocStore, ids |-> {},
     before |-> [vectors |-> <<>>, documents |-> <<>>],
     deleted |-> {}, event |-> "none", retrieved |-> <<>>]

\* RAGEngine.ingest([document]): docStore.add when there is a document store,
\* then vectorStore.add, which pushes each chunk
Ingest(id) ==
    /\ storeRun.pc = "idle"
    /\ Len(vectorStore) + Len(ChunksOf(id)) <= MaxStored
    /\ docStore' = IF storeRun.hasDocStore THEN MapSet(docStore, id, DocumentContent(id))
                   ELSE docStore
    /\ vectorStore' = vectorStore \o ChunksOf(id)
    /\ storeRun' = [storeRun EXCEPT !.deleted = @ \ {id}, !.event = "ingested"]
    /\ UNCHANGED <<baseVars, runVars, otherRuns>>

KeepsChunkById(chunk, documentIds) == chunk.id \notin documentIds

\* ({chunk}) => !documentIds.includes(chunk.documentId)
KeepsChunk(chunk, documentIds) == chunk.documentId \notin documentIds

\* MemoryVectorStore.delete: this.vectors.filter(...)
RECURSIVE VectorStoreDelete(_, _)
VectorStoreDelete(vectors, documentIds) ==
    IF vectors = <<>> THEN <<>>
    ELSE IF KeepsChunk(vectors[1], documentIds)
           THEN <<vectors[1]>> \o VectorStoreDelete(Tail(vectors), documentIds)
           ELSE VectorStoreDelete(Tail(vectors), documentIds)

\* MemoryDocumentStore.delete: for (const id of ids) this.documents.delete(id)
DocStoreDelete(documents, ids) == [id \in DOMAIN documents \ ids |-> documents[id]]

\* Retriever.deleteDocuments up to its second await: vectorStore.delete is done
DeleteVectors(ids) ==
    /\ storeRun.pc = "idle"
    /\ vectorStore' = VectorStoreDelete(vectorStore, ids)
    /\ storeRun' = [storeRun EXCEPT
                      !.pc = "deleting", !.ids = ids, !.event = "deleting",
                      !.before = [vectors |-> vectorStore, documents |-> docStore]]
    /\ UNCHANGED <<baseVars, runVars, docStore, otherRuns>>

\* if (this.docStore) await this.docStore.delete(documentIds); deleteDocuments returns
DeleteParents ==
    /\ storeRun.pc = "deleting"
    /\ docStore' = IF storeRun.hasDocStore THEN DocStoreDelete(docStore, storeRun.ids)
                   ELSE docStore
    /\ storeRun' = [storeRun EXCEPT
                      !.pc = "idle", !.event = "deleted", !.deleted = @ \cup storeRun.ids]
    /\ UNCHANGED <<baseVars, runVars, vectorStore, otherRuns>>

\* what MemoryVectorStore.search can answer: entries of this.vectors, each at
\* most once, with a score
StoreSelections(stored) ==
    {l \in UNION {[1..n -> [index : 1..stored, score : {75, 90}]] : n \in 0..2} :
        \A i, j \in 1..Len(l) : i # j => l[i].index # l[j].index}

\* retrieve(query, topK) of a retriever without a reranker
StoreRetrieveInput(topK, hasDocStore) ==
    [strategy |-> None, embedOutcome |-> "vector", topK |-> topK, scoreThreshold |-> 0,
     hasReranker |-> FALSE, hasDocStore |-> hasDocStore]

\* Retriever.retrieve against the stores as they are
RetrieveStored(topK, selection) ==
    /\ \A i \in 1..Len(selection) : selection[i].index <= Len(vectorStore)
    /\ LET results == [i \in 1..Len(selection) |->
                          [chunk |-> vectorStore[selection[i].index],
                           score |-> selection[i].score]]
           outcome == RetrieveOn(StoreRetrieveInput(topK, storeRun.hasDocStore),
                                 results, <<>>, docStore)
       IN storeRun' = [storeRun EXCEPT !.event = "retrieved", !.retrieved = outcome.docs]
    /\ UNCHANGED <<baseVars, runVars, vectorStore, docStore, otherRuns>>

(***************************************************************************)
(* LLMCompressor.compress and EmbeddingsCompressor.compress on their own   *)
(***************************************************************************)

\* most documents handed to one compress call
MaxCompressDocs == 2

DefaultMaxTokensPerDoc == 250

ShortSentence == <<"a","a","a","a">>

LongSentence == <<"b","b","b","b","b","b","b","b">>

LastSentence == <<"c","c","c","c">>

SentenceTexts == {ShortSentence, LongSentence, LastSentence}

\* chunk contents of one, two and three sentences, one with a repeated sentence
CompressContents ==
    {ShortSentence,
     ShortSentence \o <<".", " ">> \o LongSentence,
     LongSentence \o <<"!", " ">> \o ShortSentence \o <<".", " ">> \o LastSentence,
     ShortSentence \o <<".", " ">> \o LastSentence \o <<"?", "\n">> \o ShortSentence}

CompressDocuments ==
    UNION {[1..n -> {Hit(id, score, content) :
                        id \in {"k1"}, score \in {9}, content \in CompressContents}
                    \cup {Hit("k2", 8, ShortSentence \o <<".", " ">> \o LongSentence)}] :
             n \in 0..MaxCompressDocs}

\* what the generation answers for a document: snippets, nothing, the
\* IRRELEVANT sentinel, the sentinel with whitespace around it
CompressAnswers ==
    {CityText, <<>>, <<" ">>, IrrelevantText, <<" ">> \o IrrelevantText \o <<"\n">>}

\* cosine similarity of a sentence to the query, 0 also for a missing embedding
Similarities == {0, 1, 2}

\* Array.prototype.sort on a numeric key, which is stable: insertion after the
\* entries whose key is not greater
RECURSIVE InsertByKey(_, _)
InsertByKey(entry, sorted) ==
    IF sorted = <<>> THEN <<entry>>
    ELSE IF sorted[1].key <= entry.key THEN <<sorted[1]>> \o InsertByKey(entry, Tail(sorted))
    ELSE <<entry>> \o sorted

RECURSIVE SortByKey(_)
SortByKey(list) ==
    IF list = <<>> THEN <<>>
    ELSE InsertByKey(list[Len(list)], SortByKey(SubSeq(list, 1, Len(list) - 1)))

\* Array.prototype.indexOf, zero-based
IndexOf(list, value) ==
    IF \E i \in 1..Len(list) : list[i] = value
      THEN (CHOOSE i \in 1..Len(list) :
               list[i] = value /\ \A j \in 1..(i - 1) : list[j] # value) - 1
      ELSE -1

\* if (currentTokens + item.tokens <= maxTokens)
FitsBudget(currentTokens, tokens, maxTokens) == currentTokens + tokens <= maxTokens

\* the loop over sortedSentences
RECURSIVE SelectSentences(_, _, _)
SelectSentences(sortedSentences, currentTokens, maxTokens) ==
    IF sortedSentences = <<>> THEN <<>>
    ELSE LET item == sortedSentences[1]
         IN IF FitsBudget(currentTokens, item.tokens, maxTokens)
              THEN <<item>> \o SelectSentences(Tail(sortedSentences),
                                               currentTokens + item.tokens, maxTokens)
              ELSE SelectSentences(Tail(sortedSentences), currentTokens, maxTokens)

\* the body of the loop over documents: similarity[sentence] is the cosine
\* similarity of the sentence's embedding to the query embedding
CompressDocument(doc, similarity, maxTokens) ==
    LET sentences == FilterLines(TrimLines(SplitSentences(doc.chunk.content)))
        scoredSentences ==
            [i \in 1..Len(sentences) |->
                [sentence |-> sentences[i], similarity |-> similarity[sentences[i]],
                 tokens |-> CountTokens(sentences[i])]]
        \* .sort((a, b) => b.similarity - a.similarity)
        sortedSentences ==
            SortByKey([i \in 1..Len(sentences) |->
                          [key |-> 0 - scoredSentences[i].similarity,
                           item |-> scoredSentences[i]]])
        selectedSentences ==
            SelectSentences([i \in 1..Len(sortedSentences) |-> sortedSentences[i].item],
                            0, maxTokens)
        \* .sort((a, b) => sentences.indexOf(a.sentence) - sentences.indexOf(b.sentence))
        finalSentences ==
            SortByKey([i \in 1..Len(selectedSentences) |->
                          [key |-> IndexOf(sentences, selectedSentences[i].sentence),
                           item |-> selectedSentences[i].sentence]])
        distilledContent ==
            JoinWith([i \in 1..Len(finalSentences) |-> finalSentences[i].item], <<".", " ">>)
              \o <<".">>
    IN IF Len(sentences) <= 1 THEN doc ELSE WithContent(doc, distilledContent)

\* EmbeddingsCompressor.compress(query, documents) of a compressor made with
\* options.maxTokensPerDoc (0: not given)
EmbeddingsCompressorCompress(documents, queryEmbedding, similarity, maxTokensPerDoc) ==
    LET maxTokens == IF maxTokensPerDoc = 0 THEN DefaultMaxTokensPerDoc ELSE maxTokensPerDoc
    IN IF ~queryEmbedding THEN documents
       ELSE [i \in 1..Len(documents) |-> CompressDocument(documents[i], similarity, maxTokens)]

CompressWithLLM(documents, distilled) ==
    /\ ~compressRun.done
    /\ compressRun' = [done |-> TRUE, strategy |-> "llm", documents |-> documents,
                       distilled |-> distilled, queryEmbedding |-> FALSE,
                       similarity |-> <<>>, maxTokensPerDoc |-> 0,
                       result |-> LLMCompress(documents, distilled)]
    /\ UNCHANGED <<baseVars, runVars, storeVars, chatRun, answers>>

CompressWithEmbeddings(documents, queryEmbedding, similarity, maxTokensPerDoc) ==
    /\ ~compressRun.done
    /\ compressRun' = [done |-> TRUE, strategy |-> "embeddings", documents |-> documents,
                       distilled |-> <<>>, queryEmbedding |-> queryEmbedding,
                       similarity |-> similarity, maxTokensPerDoc |-> maxTokensPerDoc,
                       result |-> EmbeddingsCompressorCompress(documents, queryEmbedding,
                                                               similarity, maxTokensPerDoc)]
    /\ UNCHANGED <<baseVars, runVars, storeVars, chatRun, answers>>

(***************************************************************************)
(* POST /:agentName/chat with stream: true                                 *)
(***************************************************************************)

\* what queryStream returns when it completes
ChatResponses ==
    [answer : Answers, sources : {<<>>, Sources(<<Hit("k1", 9, ParisText)>>)},
     contextSufficient : BOOLEAN]

\* the fragments queryStream yields before it completes
ChatFragments == UNION {[1..n -> StreamChunks \cup {Sentinel}] : n \in 0..MaxChunks}

\* the argument the route passes to generator.return
ReturnArgument == [content |-> "", model |-> ""]

\* AsyncGenerator.prototype.return(value) on a generator that has completed
\* (or is suspended at a yield without a finally block): {value, done: true}
GeneratorReturn(value) == [value |-> value, done |-> TRUE]

\* the route is entered with stream: true and returns stream(); the generator
\* of agent.queryStream will yield `fragments` and then return `response`
ChatStream(fragments, response) ==
    /\ chatRun.pc = "idle"
    /\ chatRun' = [pc |-> "iterating", fragments |-> fragments, returned |-> response,
                   consumed |-> 0, completed |-> FALSE, events |-> <<>>]
    /\ UNCHANGED <<baseVars, runVars, storeVars, compressRun, answers>>

\* for await (const chunk of generator): the next fragment becomes a chunk
\* event; the result with done: true ends the loop and its value is not bound
ChatNext ==
    /\ chatRun.pc = "iterating"
    /\ IF chatRun.consumed < Len(chatRun.fragments)
         THEN chatRun' = [chatRun EXCEPT
                 !.consumed = @ + 1,
                 !.events = Append(@, [chunk |-> chatRun.fragments[chatRun.consumed + 1]])]
         ELSE chatRun' = [chatRun EXCEPT !.completed = TRUE, !.pc = "returning"]
    /\ UNCHANGED <<baseVars, runVars, storeVars, compressRun, answers>>

\* const result = await generator.return({content: "", model: ""});
\* if (result.value) yield the event {done: true, response: result.value}
ChatFinal ==
    /\ chatRun.pc = "returning"
    /\ LET result == GeneratorReturn(ReturnArgument)
       IN chatRun' = [chatRun EXCEPT
              !.pc = "done",
              !.events = Append(@, [done |-> TRUE, response |-> result.value])]
    /\ UNCHANGED <<baseVars, runVars, storeVars, compressRun, answers>>

(***************************************************************************)
(* Specifications                                                          *)
(***************************************************************************)
InitOtherRuns ==
    /\ compressRun = [done |-> FALSE]
    /\ chatRun = [pc |-> "idle"]
    /\ answers = <<>>

InitRunsButStore ==
    /\ retrieveRun = [done |-> FALSE]
    /\ chunkRun = [pc |-> "idle"]
    /\ groundRun = [done |-> FALSE]
    /\ expandRun = [done |-> FALSE]
    /\ toolRun = [done |-> FALSE]
    /\ buildRun = [done |-> FALSE]
    /\ calls = [c \in CallIds |-> IdleCall]
    /\ InitOtherRuns

InitRuns ==
    /\ InitRunsButStore
    /\ vectorStore = <<>>
    /\ docStore = <<>>
    /\ storeRun = [pc |-> "idle"]

InitBase ==
    /\ memories = <<>>
    /\ added = [s \in Sessions |-> <<>>]
    /\ InitRuns

PlainConfig ==
    [rewrite |-> FALSE, expand |-> FALSE, decompose |-> FALSE, hyde |-> FALSE,
     maxExpansions |-> 3, topK |-> 0, compression |-> "none"]

InitMemory ==
    /\ \E window \in 0..MaxWindow : maxMessages = MemoryManagerNew(window)
    /\ tools = <<>>
    /\ cfg = PlainConfig
    /\ InitBase

NextMemory ==
    \/ \E s \in Sessions, msg \in MemMessages : AddMessage(s, msg)
    \/ \E s \in Sessions : ClearHistory(s)

SpecMemory == InitMemory /\ [][NextMemory]_vars

InitFixed ==
    /\ maxMessages = MemoryManagerNew(0)
    /\ tools = <<>>
    /\ cfg = PlainConfig
    /\ InitBase

NextTools ==
    \/ \E name \in ToolNames, b \in ToolBehaviours : Register(name, b)
    \/ \E name \in ToolNames : ExecuteTool(name)

SpecTools == InitFixed /\ [][NextTools]_vars

NextBuild ==
    \E counts \in DocLists, maxTokens \in Budgets, overhead \in Overheads :
        Build(counts, maxTokens, overhead)

SpecBuild == InitFixed /\ [][NextBuild]_vars

\* no session, a session with an earlier exchange, a new session
EngineSessions == {None, "s1", "s2"}

\* retrieval stage: every answer of the retriever, every configuration
InitRetrieval ==
    /\ maxMessages = MemoryManagerNew(0)
    /\ tools = EngineTools
    /\ cfg \in Configs
    /\ InitBase

NextRetrieval ==
    \/ \E c \in CallIds, v \in Variants : Start(c, v, None)
    \/ \E c \in CallIds, t \in QueryTexts : Rewrite(c, t)
    \/ \E c \in CallIds, lines \in LineLists : Expand(c, lines)
    \/ \E c \in CallIds, lines \in LineLists : Decompose(c, lines)
    \/ \E c \in CallIds, i \in 1..(MaxLines + 1), found \in HitLists : RetrieveDone(c, i, found)
    \/ \E c \in CallIds : Merge(c)

SpecRetrieval == InitRetrieval /\ [][NextRetrieval]_vars

\* the inputs of the full engine: one rewrite, one generated line, and a store
\* that holds nothing or one chunk for a query
EngineQueryTexts == {"r"}

EngineLineLists == {<<"r">>}

EngineHitLists == {<<>>, <<Hit("k1", 9, ParisText)>>}

\* session memory when the invocation starts: an earlier exchange of "s1"
PriorHistory == <<UserMessage("r"), AssistantMessage(GroundedAnswer)>>

Init ==
    /\ maxMessages = MemoryManagerNew(0)
    /\ tools = EngineTools
    /\ cfg \in Configs
    /\ memories = [s \in {"s1"} |-> PriorHistory]
    /\ added = [s \in Sessions |-> IF s = "s1" THEN PriorHistory ELSE <<>>]
    /\ InitRuns

Next ==
    \/ \E c \in CallIds, v \in Variants, s \in EngineSessions : Start(c, v, s)
    \/ \E c \in CallIds, t \in EngineQueryTexts : Rewrite(c, t)
    \/ \E c \in CallIds, lines \in EngineLineLists : Expand(c, lines)
    \/ \E c \in CallIds, lines \in EngineLineLists : Decompose(c, lines)
    \/ \E c \in CallIds, i \in 1..2, found \in EngineHitLists : RetrieveDone(c, i, found)
    \/ \E c \in CallIds : Fail(c)
    \/ \E c \in CallIds : Merge(c)
    \/ \E c \in CallIds :
           \E distilled \in [1..Len(calls[c].retrievedDocs) -> DistilledTexts] :
               CompressLLM(c, distilled)
    \/ \E c \in CallIds : CompressEmbeddings(c)
    \/ \E c \in CallIds : ResumeAfterSentinel(c)
    \/ \E c \in CallIds, resp \in LLMResponses : GenerateResponds(c, resp)
    \/ \E c \in CallIds, i \in 1..2 : ToolCompletes(c, i)
    \/ \E c \in CallIds : ToolsJoin(c)
    \/ \E c \in CallIds, chunk \in StreamChunks : StreamChunk(c, chunk)
    \/ \E c \in CallIds : StreamEnd(c)
    \/ \E c \in CallIds : Persist(c)

Spec == Init /\ [][Next]_vars

\* one retrieve call per behaviour
NextRetrieve ==
    /\ ~retrieveRun.done
    /\ \E in \in RetrieveInputs, results \in SearchResults,
          reranked \in RerankAnswers, store \in ParentStores :
           Retrieve(in, results, reranked, store)

SpecRetrieve == InitFixed /\ [][NextRetrieve]_vars

\* one expand call per behaviour
NextExpand ==
    /\ ~expandRun.done
    /\ \E query \in ExpandQueries, content \in Contents, maxExpansions \in ExpansionLimits :
           ExpandCall(query, content, maxExpansions)

SpecExpand == InitFixed /\ [][NextExpand]_vars

\* one verifyGrounding call per behaviour
NextGround ==
    /\ ~groundRun.done
    /\ \E response \in GroundResponses, context \in GroundContexts :
           VerifyGroundingCall(response, context)

SpecGround == InitFixed /\ [][NextGround]_vars

\* one process call per behaviour
NextChunk ==
    \/ /\ chunkRun.pc = "idle"
       /\ \E content \in Documents, options \in ChunkingOptions, strategy \in Strategies :
              Process(content, options, strategy)
    \/ FixedStep

SpecChunk == InitFixed /\ [][NextChunk]_vars

InitStore ==
    /\ maxMessages = MemoryManagerNew(0)
    /\ tools = <<>>
    /\ cfg = PlainConfig
    /\ memories = <<>>
    /\ added = [s \in Sessions |-> <<>>]
    /\ InitRunsButStore
    /\ vectorStore = <<>>
    /\ docStore = <<>>
    /\ \E hasDocStore \in BOOLEAN : storeRun = IdleStore(hasDocStore)

NextStore ==
    \/ \E id \in DocIds : Ingest(id)
    \/ \E ids \in SUBSET DocIds : DeleteVectors(ids)
    \/ DeleteParents
    \/ \E topK \in {1, 2}, selection \in StoreSelections(Len(vectorStore)) :
           RetrieveStored(topK, selection)

SpecStore == InitStore /\ [][NextStore]_vars

\* one compress call per behaviour
NextCompress ==
    \/ /\ ~compressRun.done
       /\ \E documents \in CompressDocuments :
             \E distilled \in [1..Len(documents) -> CompressAnswers] :
                 CompressWithLLM(documents, distilled)
    \/ /\ ~compressRun.done
       /\ \E documents \in CompressDocuments, queryEmbedding \in BOOLEAN,
             similarity \in [SentenceTexts -> Similarities], maxTokensPerDoc \in 0..3 :
                 CompressWithEmbeddings(documents, queryEmbedding, similarity, maxTokensPerDoc)

SpecCompress == InitFixed /\ [][NextCompress]_vars

\* two invocations on one engine and one session
PairIds == {"c1", "c2"}

PairQueries == {"q", "p"}

\* the window of the memory manager the two invocations share
PairWindow == 3

\* what the capabilities answer, to either invocation: the rewritten query,
\* the lines generated for expand and decompose, what the retriever finds for
\* a query text, the distilled text of a document, the generated response
PairAnswers ==
    [rewritten : EngineQueryTexts,
     lines : EngineLineLists,
     found : [PairQueries \cup EngineQueryTexts -> EngineHitLists],
     distilled : {IrrelevantText, CityText},
     generated : {[content |-> a, toolCalls |-> <<>>] : a \in {GroundedAnswer, UngroundedAnswer}}]

InitPair ==
    /\ maxMessages = MemoryManagerNew(PairWindow)
    /\ tools = EngineTools
    /\ cfg \in Configs
    /\ memories = [s \in {"s1"} |-> PriorHistory]
    /\ added = [s \in Sessions |-> IF s = "s1" THEN PriorHistory ELSE <<>>]
    /\ calls = [c \in PairIds |-> IdleCall]
    /\ answers \in PairAnswers
    /\ retrieveRun = [done |-> FALSE]
    /\ chunkRun = [pc |-> "idle"]
    /\ groundRun = [done |-> FALSE]
    /\ expandRun = [done |-> FALSE]
    /\ toolRun = [done |-> FALSE]
    /\ buildRun = [done |-> FALSE]
    /\ compressRun = [done |-> FALSE]
    /\ chatRun = [pc |-> "idle"]
    /\ vectorStore = <<>>
    /\ docStore = <<>>
    /\ storeRun = [pc |-> "idle"]

\* c1 calls query("q"), c2 calls query or queryStream with the same or another
\* query, both with session "s1"; every await resolves with the answers
NextPair ==
    \/ \E v \in Variants : v.method = "query" /\ StartWith("c1", v, "s1", "q")
    \/ \E v \in Variants, query \in PairQueries : StartWith("c2", v, "s1", query)
    \/ \E c \in PairIds : Rewrite(c, answers.rewritten)
    \/ \E c \in PairIds : Expand(c, answers.lines)
    \/ \E c \in PairIds : Decompose(c, answers.lines)
    \/ \E c \in PairIds, i \in 1..(MaxLines + 1) :
           /\ i <= Len(calls[c].searchQueries)
           /\ RetrieveDone(c, i, answers.found[calls[c].searchQueries[i]])
    \/ \E c \in PairIds : Merge(c)
    \/ \E c \in PairIds :
           CompressLLM(c, [i \in 1..Len(calls[c].retrievedDocs) |-> answers.distilled])
    \/ \E c \in PairIds : CompressEmbeddings(c)
    \/ \E c \in PairIds : ResumeAfterSentinel(c)
    \/ \E c \in PairIds : GenerateResponds(c, answers.generated)
    \/ \E c \in PairIds : StreamChunk(c, answers.generated.content)
    \/ \E c \in PairIds : StreamEnd(c)
    \/ \E c \in PairIds : Persist(c)

SpecPair == InitPair /\ [][NextPair]_vars

\* one streaming chat request per behaviour
NextChat ==
    \/ /\ chatRun.pc = "idle"
       /\ \E fragments \in ChatFragments, response \in ChatResponses :
             ChatStream(fragments, response)
    \/ ChatNext
    \/ ChatFinal

SpecChat == InitFixed /\ [][NextChat]_vars

(***************************************************************************)
(* Properties                                                              *)
(***************************************************************************)
RECURSIVE SumTokens(_)
SumTokens(docs) ==
    IF docs = <<>> THEN 0 ELSE docs[1].tokenCount + SumTokens(Tail(docs))

\* number of leading documents a greedy packer admits before the first one that
\* does not fit the remaining budget
RECURSIVE FittingPrefix(_, _)
FittingPrefix(docs, room) ==
    IF docs = <<>> \/ docs[1].tokenCount > room
      THEN 0
      ELSE 1 + FittingPrefix(Tail(docs), room - docs[1].tokenCount)

\* C1: after build(query, documents, maxTokens) the fixed overhead plus the token
\* cost of every returned document is at most maxTokens (per-document formatting
\* overhead is counted as zero here, the weakest reading of the claim).
C1_WithinBudget ==
    buildRun.done =>
        buildRun.overhead + SumTokens(buildRun.context.documents) <= buildRun.maxTokens

\* C2: build returns exactly the leading documents that fit the budget and stops
\* at the first document that does not fit.
C2_StopsAtFirstNonFitting ==
    buildRun.done =>
        buildRun.context.documents =
            SubSeq(buildRun.input, 1,
                   FittingPrefix(buildRun.input, buildRun.maxTokens - buildRun.overhead))

\* C9: getHistory(s) is exactly the last min(n, maxMessages) messages added to s
\* since its last clear, in insertion order, and never longer than maxMessages.
C9_HistoryIsWindow ==
    \A s \in Sessions :
        LET n == Len(added[s])
            k == Min(n, maxMessages)
        IN /\ GetHistory(memories, s) = SubSeq(added[s], n - k + 1, n)
           /\ Len(GetHistory(memories, s)) <= maxMessages

\* C9 witness: a session that has evicted at least one message
C9_Evicted ==
    \E s \in Sessions :
        /\ Len(added[s]) > maxMessages
        /\ Len(GetHistory(memories, s)) = maxMessages

\* C10: executeTool on a registered tool whose execute fails with message m returns
\* "Error executing tool {name}: {m}" without throwing; on an unregistered name it
\* throws and runs no tool.
C10_ExecuteToolOutcome ==
    toolRun.done =>
        /\ (toolRun.registered /\ toolRun.behaviour.kind \in {"rejectError", "rejectValue"}) =>
               /\ toolRun.outcome.status = "returned"
               /\ toolRun.outcome.value = ErrorString(toolRun.name, toolRun.behaviour.value)
        /\ ~toolRun.registered =>
               /\ toolRun.outcome.status = "threw"
               /\ ~toolRun.outcome.executed

\* C10 witness: a call of a registered tool whose execute failed
C10_FailedToolCalled ==
    /\ toolRun.done
    /\ toolRun.registered
    /\ toolRun.behaviour.kind = "rejectError"
    /\ toolRun.outcome.executed

\* the invocation has built its document pool (merge, sort, cap and compression are over)
PoolBuilt(r) ==
    r.pc \in {"generate", "tools", "stream", "persist", "yieldedSentinel", "done"}

\* the merge of the invocation is over
Merged(r) == PoolBuilt(r) \/ r.pc = "compress"

ChunkIds(docs) == {docs[i].chunk.id : i \in 1..Len(docs)}

\* the per-query result lists in the order the queries were issued
IssuedLists(r) == [i \in 1..Len(r.results) |-> r.results[i].docs]

\* C3: in query and in queryStream, an empty document pool after retrieval and
\* compression ends the invocation with the INSUFFICIENT_CONTEXT response: no
\* generate call, no tool execution, no write to session memory, and the
\* streaming variant yields the sentinel as its only chunk.
C3_EmptyPoolIsInsufficient ==
    \A c \in CallIds :
        LET r == calls[c]
        IN (PoolBuilt(r) /\ r.retrievedDocs = <<>>) =>
              /\ r.pc \in {"yieldedSentinel", "done"}
              /\ r.generateCalls = 0
              /\ r.generated = <<>>
              /\ r.toolsExecuted = 0
              /\ ~r.wroteMemory
              /\ r.sessionId # None => GetHistory(memories, r.sessionId) = r.history
              /\ \A s \in Sessions : GetHistory(memories, s) = added[s]
              /\ r.pc = "done" => r.response = InsufficientResponse
              /\ r.method = "queryStream" => r.yielded = <<Sentinel>>
              /\ r.method = "query" => r.yielded = <<>>

\* a streaming invocation of a session with history ends on a pool that the
\* compressor emptied
C3_CompressedToNothing ==
    \E c \in CallIds :
        /\ calls[c].pc = "done"
        /\ calls[c].method = "queryStream"
        /\ calls[c].sessionId = "s1"
        /\ calls[c].history # <<>>
        /\ \E i \in 1..Len(calls[c].results) : calls[c].results[i].docs # <<>>
        /\ calls[c].retrievedDocs = <<>>
        /\ calls[c].yielded = <<Sentinel>>

AllRequestTools(generated) ==
    \A i \in 1..Len(generated) : generated[i].toolCalls # <<>>

C5_UngroundedIsDowngraded ==
    \A c \in CallIds :
        LET r == calls[c]
        IN (r.method = "query" /\ r.pc = "done" /\ r.generated # <<>>
               /\ ~VerifyGrounding(r.finalAnswer, r.context) /\ r.finalAnswer # Sentinel) =>
              /\ r.response.answer = Sentinel
              /\ r.response.contextSufficient = FALSE
              /\ r.response.sources = Sources(r.retrievedDocs)

\* C6: query() with a session id appends exactly the user query and the final
\* answer, and only when the final answer is grounded; otherwise the session
\* history is left as it was.
C6_PersistOnlyGrounded ==
    \A c \in CallIds :
        LET r == calls[c]
        IN (r.method = "query" /\ r.pc = "done" /\ r.generated # <<>> /\ r.sessionId # None) =>
              GetHistory(memories, r.sessionId) =
                  IF VerifyGrounding(r.finalAnswer, r.context)
                    THEN r.history \o <<UserMessage(r.query), AssistantMessage(r.finalAnswer)>>
                    ELSE r.history

\* C7: the pool built from the per-query results (merged, sorted, capped) has
\* no two entries with the same chunk id.
C7_NoDuplicateChunkIds ==
    \A c \in CallIds :
        LET docs == calls[c].retrievedDocs
        IN Merged(calls[c]) =>
              \A i, j \in 1..Len(docs) : i # j => docs[i].chunk.id # docs[j].chunk.id

\* two queries returned the same chunk and the pool holds several documents
C7_SharedChunkMerged ==
    \E c \in CallIds :
        LET r == calls[c]
        IN /\ Merged(r)
           /\ Len(r.results) = 2
           /\ ChunkIds(r.results[1].docs) \cap ChunkIds(r.results[2].docs) # {}
           /\ Len(r.retrievedDocs) >= 2

\* the first hit with the given chunk id in the earliest-issued list that has one
RECURSIVE FirstWithId(_, _)
FirstWithId(docs, id) ==
    IF docs[1].chunk.id = id THEN docs[1] ELSE FirstWithId(Tail(docs), id)

EarliestIssued(lists, id) ==
    LET i == CHOOSE k \in 1..Len(lists) :
                 /\ id \in ChunkIds(lists[k])
                 /\ \A m \in 1..(k - 1) : id \notin ChunkIds(lists[m])
    IN FirstWithId(lists[i], id)

\* C8: the merged pool does not depend on the order in which the retrieval
\* tasks complete: it is the pool of the lists taken in issue order, and the
\* entry kept for a chunk id is the one of the earliest-issued query.
C8_IssueOrderWins ==
    \A c \in CallIds :
        LET r == calls[c]
            lists == IssuedLists(r)
        IN Merged(r) =>
              /\ \A i \in 1..Len(r.retrievedDocs) :
                    r.retrievedDocs[i] = EarliestIssued(lists, r.retrievedDocs[i].chunk.id)
              /\ r.retrievedDocs =
                    SliceTo(SortByScoreDesc(KeepFirstSeen(Flatten(lists), {})), TopK * 2)

\* the later-issued query completed first and both returned the same chunk with
\* different scores
C8_LateQueryFinishedFirst ==
    \E c \in CallIds :
        LET r == calls[c]
        IN /\ Merged(r)
           /\ r.order = <<2, 1>>
           /\ \E i \in 1..Len(r.results[1].docs), j \in 1..Len(r.results[2].docs) :
                 /\ r.results[1].docs[i].chunk.id = r.results[2].docs[j].chunk.id
                 /\ r.results[1].docs[i].score # r.results[2].docs[j].score
                 /\ r.results[1].docs[i] = EarliestIssued(IssuedLists(r), r.results[1].docs[i].chunk.id)
                 /\ \E k \in 1..Len(r.retrievedDocs) : r.retrievedDocs[k] = r.results[1].docs[i]

PassingResults(results, scoreThreshold) ==
    {i \in 1..Len(results) : results[i].score >= scoreThreshold}

EffectiveTopK(in) == IF in.topK = 0 THEN 5 ELSE in.topK

EffectiveThreshold(in) == IF in.scoreThreshold = 0 THEN 70 ELSE in.scoreThreshold

\* C11: without reranker and parent retrieval, retrieve returns the backend
\* candidates whose score is at least scoreThreshold, sorted by score
\* non-increasing and cut to the first topK; scores [0.9, 0.75, 0.6] with the
\* defaults topK 5 and threshold 0.7 give exactly [0.9, 0.75].
C11_FilterSortCut ==
    (retrieveRun.done /\ retrieveRun.outcome.kind = "ok"
        /\ ~retrieveRun.input.hasReranker /\ ~retrieveRun.input.hasDocStore) =>
       LET docs == retrieveRun.outcome.docs
           results == retrieveRun.results
           topK == EffectiveTopK(retrieveRun.input)
           threshold == EffectiveThreshold(retrieveRun.input)
           passing == PassingResults(results, threshold)
           returned == {i \in passing : \E j \in 1..Len(docs) :
                           docs[j].chunk = results[i].chunk /\ docs[j].score = results[i].score}
       IN /\ \A j \in 1..Len(docs) : docs[j].score >= threshold
          /\ Len(docs) <= topK
          /\ Len(docs) = Min(topK, Cardinality(passing))
          /\ \A j \in 1..(Len(docs) - 1) : docs[j].score >= docs[j + 1].score
          /\ Cardinality(returned) = Len(docs)
          /\ \A i \in passing \ returned, j \in 1..Len(docs) : results[i].score <= docs[j].score
          /\ ([i \in 1..Len(results) |-> results[i].score] = <<90, 75, 60>>
                 /\ topK = 5 /\ threshold = 70) =>
                [j \in 1..Len(docs) |-> docs[j].score] = <<90, 75>>

\* the scenario: three candidates, defaults, the one at 0.6 filtered out
C11_ScenarioB ==
    /\ retrieveRun.done
    /\ retrieveRun.input.strategy = None
    /\ retrieveRun.input.topK = 0
    /\ retrieveRun.input.scoreThreshold = 0
    /\ ~retrieveRun.input.hasReranker /\ ~retrieveRun.input.hasDocStore
    /\ [i \in 1..Len(retrieveRun.results) |-> retrieveRun.results[i].score] = <<90, 75, 60>>
    /\ [j \in 1..Len(retrieveRun.outcome.docs) |-> retrieveRun.outcome.docs[j].score] = <<90, 75>>

\* C19: when the embedding capability yields no vector, retrieve fails without
\* calling the search backend under vector and hybrid mode; under keyword mode
\* the embedding capability is not called and the search gets the query text.
C19_MissingEmbedding ==
    retrieveRun.done =>
       LET strategy == IF retrieveRun.input.strategy = None THEN "vector"
                       ELSE retrieveRun.input.strategy
           outcome == retrieveRun.outcome
       IN /\ (strategy \in {"vector", "hybrid"} /\ retrieveRun.input.embedOutcome = "none") =>
                (outcome.kind = "throw" /\ ~outcome.searchCalled)
          /\ strategy = "keyword" =>
                (~outcome.embedCalled /\ outcome.kind = "ok"
                    /\ outcome.searchCalled /\ outcome.searchQuery /\ ~outcome.searchVector)

\* positions of the newlines of a text, with both ends as sentinels
LineBreaks(content) ==
    {0, Len(content) + 1} \cup {i \in 1..Len(content) : content[i] = "\n"}

\* the lines of a text that hold a non-whitespace character, as pairs of
\* the positions of their first and last non-whitespace characters
InkSpans(content) ==
    {span \in (1..Len(content)) \X (1..Len(content)) :
        /\ span[1] <= span[2]
        /\ content[span[1]] \notin Whitespace
        /\ content[span[2]] \notin Whitespace
        /\ \A i \in span[1]..span[2] : content[i] # "\n"
        /\ \E lo \in LineBreaks(content), hi \in LineBreaks(content) :
              /\ lo < span[1] /\ span[2] < hi
              /\ \A i \in (lo + 1)..(span[1] - 1) : content[i] \in Whitespace \ {"\n"}
              /\ \A i \in (span[2] + 1)..(hi - 1) : content[i] \in Whitespace \ {"\n"}}

\* C20: expand returns the original query first, then the non-empty trimmed
\* lines of the generation in their order, at most maxExpansions + 1 elements
\* in total
C20_ExpandShape ==
    expandRun.done =>
        LET result == expandRun.result
            content == expandRun.content
            spans == InkSpans(content)
            kept == Min(expandRun.maxExpansions, Cardinality(spans))
        IN /\ Len(result) = kept + 1
           /\ Len(result) <= expandRun.maxExpansions + 1
           /\ result[1] = expandRun.query
           /\ \A k \in 1..kept :
                 \E span \in spans :
                    /\ Cardinality({other \in spans : other[1] < span[1]}) = k - 1
                    /\ result[k + 1] = SubSeq(content, span[1], span[2])

\* a generation with a blank line, a padded line and more lines than asked for
C20_BlankPaddedAndCut ==
    /\ expandRun.done
    /\ expandRun.content = <<"a", "\n", "\n", " ", "b">>
    /\ expandRun.maxExpansions = 1
    /\ expandRun.result = <<expandRun.query, <<"a">>>>

\* the text without the whitespace around it, by positions
Core(text) ==
    LET ink == {i \in 1..Len(text) : text[i] \notin Whitespace}
    IN IF ink = {} THEN <<>>
       ELSE SubSeq(text, CHOOSE i \in ink : \A j \in ink : i <= j,
                         CHOOSE i \in ink : \A j \in ink : i >= j)

\* C16 as stated: the answer INSUFFICIENT_CONTEXT is grounded for every
\* context, every other answer is not grounded on zero documents
C16_SentinelThenEmptiness ==
    groundRun.done =>
        /\ groundRun.response = Sentinel => groundRun.grounded
        /\ (groundRun.response # Sentinel /\ Len(groundRun.context.documents) = 0)
              => ~groundRun.grounded

\* C16: an answer that is INSUFFICIENT_CONTEXT once the whitespace around it
\* is removed is grounded for every context, zero documents included; every
\* other answer is not grounded on zero documents
C16_TrimmedSentinelThenEmptiness ==
    groundRun.done =>
        /\ Core(groundRun.response) = Sentinel => groundRun.grounded
        /\ (Core(groundRun.response) # Sentinel /\ Len(groundRun.context.documents) = 0)
              => ~groundRun.grounded

\* the sentinel with whitespace around it, checked against zero documents
C16_PaddedSentinelNoDocuments ==
    /\ groundRun.done
    /\ groundRun.response = PaddedSentinel
    /\ Len(groundRun.context.documents) = 0
    /\ groundRun.grounded

\* the lower-cased words of an answer, and the lower-cased context text
AnswerWords == SplitWhitespace(ToLowerCase(groundRun.response))

ContextText ==
    JoinSpace([i \in 1..Len(groundRun.context.documents) |->
                  ToLowerCase(groundRun.context.documents[i].chunk.content)])

LongWordAt == {i \in 1..Len(AnswerWords) : Len(AnswerWords[i]) > 3}

OccurringLongWordAt == {i \in LongWordAt : Includes(ContextText, AnswerWords[i])}

RatioApplies ==
    /\ groundRun.done
    /\ Core(groundRun.response) # Sentinel
    /\ Len(groundRun.context.documents) >= 1

\* C17 as stated: grounded exactly when, of the answer words longer than 3
\* characters, at least 30% occur in the context text
C17_RatioOfLongWords ==
    (RatioApplies /\ LongWordAt # {}) =>
        (groundRun.grounded <=>
            10 * Cardinality(OccurringLongWordAt) >= 3 * Cardinality(LongWordAt))

\* C17: grounded exactly when the answer words longer than 3 characters
\* that occur in the context text are at least 30% of all the answer words
C17_RatioOfAllWords ==
    RatioApplies =>
        (groundRun.grounded <=>
            10 * Cardinality(OccurringLongWordAt) >= 3 * Len(AnswerWords))

\* three occurring long words among ten words: the ratio is exactly 0.30
C17_ExactlyThreeTenths ==
    /\ RatioApplies
    /\ Cardinality(OccurringLongWordAt) = 3
    /\ Len(AnswerWords) = 10
    /\ groundRun.grounded

\* C14: under every strategy every emitted chunk but the last of the document
\* has tokenCount at least the configured minTokens
C14_MinTokensButLast ==
    chunkRun.pc = "done" =>
        \A i \in 1..(Len(chunkRun.chunks) - 1) :
            chunkRun.chunks[i].tokenCount >= chunkRun.options.minTokens

\* C15: an iteration of the fixed-size loop that is followed by another one
\* has moved the cursor forward
C15_CursorMovesOrLoopStops ==
    [][(chunkRun.pc = "loop" /\ chunkRun'.pc = "loop")
          => chunkRun'.startIdx > chunkRun.startIdx]_vars

\* the streaming invocations whose pool of documents is not empty
StreamsOverPool(r) ==
    r.method = "queryStream" /\ PoolBuilt(r) /\ r.retrievedDocs # <<>>

\* C12: what queryStream has yielded is, at every moment, exactly the
\* fragments generateStream has produced so far, in their order; the answer of
\* the final RAGResponse is their concatenation, and that response is the
\* completion value, not one more yielded chunk
C12_YieldsAreTheFragments ==
    \A c \in CallIds :
        LET r == calls[c]
        IN StreamsOverPool(r) =>
              /\ r.yielded = r.streamed
              /\ r.pc \in {"generate", "tools"} => r.yielded = <<>>
              /\ r.pc = "done" =>
                    /\ r.response.answer = Concat(r.streamed)
                    /\ Len(r.yielded) = Len(r.streamed)
                    /\ \A i \in 1..Len(r.yielded) : r.yielded[i] \in StreamChunks

\* a stream of two different fragments, drained
C12_TwoFragmentsDrained ==
    \E c \in CallIds :
        /\ StreamsOverPool(calls[c])
        /\ calls[c].pc = "done"
        /\ calls[c].streamed = <<UngroundedAnswer, GroundedAnswer>>

\* the messages of a session before the invocation
MessagesBefore(s) == IF s = "s1" THEN PriorHistory ELSE <<>>

\* C13: queryStream with a session id writes nothing to memory before the
\* stream is drained; once it has completed, the user message and the
\* assistant message with the whole streamed text are appended, grounded or
\* not, and contextSufficient is what the grounding check returned
C13_StreamPersistsAfterDrain ==
    \A c \in CallIds :
        LET r == calls[c]
            s == r.sessionId
        IN (StreamsOverPool(r) /\ s # None) =>
              /\ r.pc \in {"generate", "tools", "stream"} =>
                    \A other \in Sessions : added[other] = MessagesBefore(other)
              /\ r.pc = "persist" =>
                    added[s] = MessagesBefore(s) \o <<UserMessage(r.query)>>
              /\ r.pc = "done" =>
                    /\ added[s] = MessagesBefore(s)
                          \o <<UserMessage(r.query), AssistantMessage(Concat(r.streamed))>>
                    /\ r.response.contextSufficient
                          = VerifyGrounding(Concat(r.streamed), r.context)

\* a streamed answer that fails the grounding check, persisted all the same
C13_UngroundedStreamPersisted ==
    \E c \in CallIds :
        LET r == calls[c]
        IN /\ StreamsOverPool(r)
           /\ r.pc = "done"
           /\ r.sessionId = "s1"
           /\ r.streamed = <<UngroundedAnswer, UngroundedAnswer>>
           /\ ~r.response.contextSufficient
           /\ Len(added["s1"]) = Len(PriorHistory) + 2

\* the entries of a list of chunks whose document is not among the ids
RECURSIVE ChunksOfOthers(_, _)
ChunksOfOthers(chunks, ids) ==
    IF chunks = <<>> THEN <<>>
    ELSE IF chunks[1].documentId \in ids THEN ChunksOfOthers(Tail(chunks), ids)
    ELSE <<chunks[1]>> \o ChunksOfOthers(Tail(chunks), ids)

FiledUnder(chunk) == IF chunk.parentId = None THEN chunk.documentId ELSE chunk.parentId

\* the positions of a list of retrieved documents that are the first of their parent
FirstOfParent(list) ==
    {i \in 1..Len(list) :
        \A j \in 1..(i - 1) : FiledUnder(list[j].chunk) # FiledUnder(list[i].chunk)}

\* the returned list is the surviving chunks, one per parent and the first of
\* each, with the parent's content where the document store has the parent
OnePerParent(docs, surviving, store) ==
    LET firsts == FirstOfParent(surviving)
    IN /\ Len(docs) = Cardinality(firsts)
       /\ \A i, j \in 1..Len(docs) :
             i # j => FiledUnder(docs[i].chunk) # FiledUnder(docs[j].chunk)
       /\ \A k \in 1..Len(docs) :
             \E f \in firsts :
                /\ Cardinality({g \in firsts : g < f}) = k - 1
                /\ docs[k].score = surviving[f].score
                /\ docs[k].source = surviving[f].source
                /\ docs[k].chunk.id = surviving[f].chunk.id
                /\ docs[k].chunk.documentId = surviving[f].chunk.documentId
                /\ docs[k].chunk.parentId = surviving[f].chunk.parentId
                /\ docs[k].chunk.content =
                      IF FiledUnder(surviving[f].chunk) \in DOMAIN store
                        THEN store[FiledUnder(surviving[f].chunk)]
                        ELSE surviving[f].chunk.content

ParentRetrievalHolds ==
    OnePerParent(retrieveRun.outcome.docs,
                 RetrievePlain(retrieveRun.results, EffectiveTopK(retrieveRun.input),
                               EffectiveThreshold(retrieveRun.input)),
                 retrieveRun.store)

\* C21 as stated: every retrieve call of a retriever with a document store
\* returns one entry per parent id, the first surviving chunk of the parent,
\* with the parent's content
C21_EveryCallOnePerParent ==
    (retrieveRun.done /\ retrieveRun.outcome.kind = "ok" /\ retrieveRun.input.hasDocStore)
       => ParentRetrievalHolds

\* C21: a retrieve call of a retriever with a document store that does not
\* return through the reranker returns one entry per parent id, the first
\* surviving chunk of that parent, carrying the parent Document's content and
\* the chunk's other fields, score and source; a chunk whose parent is not in
\* the document store keeps its own content
C21_OnePerParentUnlessReranked ==
    (retrieveRun.done /\ retrieveRun.outcome.kind = "ok" /\ retrieveRun.input.hasDocStore
        /\ ~(retrieveRun.input.hasReranker /\ Len(retrieveRun.results) > 0))
       => ParentRetrievalHolds

\* three surviving chunks, two filed under d1, which the document store
\* holds, and one under d2, which it does not
C21_TwoParentsOneMissing ==
    /\ retrieveRun.done
    /\ retrieveRun.outcome.kind = "ok"
    /\ retrieveRun.input.hasDocStore /\ ~retrieveRun.input.hasReranker
    /\ retrieveRun.input.topK = 0 /\ retrieveRun.input.scoreThreshold = 0
    /\ Len(retrieveRun.results) = 3
    /\ \A i \in 1..3 : retrieveRun.results[i].score >= 75
    /\ DOMAIN retrieveRun.store = {"d1"}
    /\ Len(retrieveRun.outcome.docs) = 2
    /\ retrieveRun.outcome.docs[1].chunk.id = "k3"
    /\ retrieveRun.outcome.docs[1].chunk.content = retrieveRun.store["d1"]
    /\ retrieveRun.outcome.docs[2].chunk.id = "k2"
    /\ retrieveRun.outcome.docs[2].chunk.content = StoreChunk("k2", "d2", None).content


\* the fields a compressor may not touch are equal in both documents
SameButContent(after, before) ==
    /\ DOMAIN after = DOMAIN before
    /\ DOMAIN after.chunk = DOMAIN before.chunk
    /\ \A field \in DOMAIN after \ {"chunk"} : after[field] = before[field]
    /\ \A field \in DOMAIN after.chunk \ {"content", "tokenCount"} :
          after.chunk[field] = before.chunk[field]

\* the positions of the documents whose distilled text is neither empty nor
\* IRRELEVANT
SurvivingPositions ==
    {i \in 1..Len(compressRun.documents) :
        Core(compressRun.distilled[i]) \notin {<<>>, IrrelevantText}}

NthSurvivor(j) ==
    CHOOSE i \in SurvivingPositions :
        Cardinality({k \in SurvivingPositions : k < i}) = j - 1

\* C24: both compressors return an order-preserving sub-list of their input in
\* which every survivor keeps its chunk id, score, source and every chunk
\* field except content and tokenCount; the generation-based one drops exactly
\* the documents whose distilled text is empty or IRRELEVANT, the
\* embedding-based one drops none
C24_CompressFrame ==
    compressRun.done =>
        LET documents == compressRun.documents
            result == compressRun.result
        IN IF compressRun.strategy = "llm"
             THEN /\ Len(result) = Cardinality(SurvivingPositions)
                  /\ \A j \in 1..Len(result) :
                        /\ SameButContent(result[j], documents[NthSurvivor(j)])
                        /\ result[j].chunk.content = Core(compressRun.distilled[NthSurvivor(j)])
             ELSE /\ Len(result) = Len(documents)
                  /\ \A i \in 1..Len(result) : SameButContent(result[i], documents[i])

\* two documents of which the first is answered with IRRELEVANT in whitespace
\* and the second survives with new content
C24_FirstDroppedSecondDistilled ==
    /\ compressRun.done
    /\ compressRun.strategy = "llm"
    /\ Len(compressRun.documents) = 2
    /\ compressRun.distilled[1] = <<" ">> \o IrrelevantText \o <<"\n">>
    /\ Len(compressRun.result) = 1
    /\ compressRun.result[1].chunk.id = "k2"
    /\ compressRun.documents[1].chunk.id = "k1"
    /\ compressRun.result[1].chunk.content # compressRun.documents[2].chunk.content

\* the sentences of a chunk's content: the pieces between runs of . ! ?
\* followed by whitespace, trimmed, the empty ones left out
SentencesOf(content) ==
    LET stops == {i \in 1..Len(content) :
                     /\ content[i] \in Whitespace
                     /\ \E j \in 1..(i - 1) :
                           /\ content[j] \in {".", "!", "?"}
                           /\ \A k \in (j + 1)..(i - 1) : content[k] \in Whitespace}
        cut == {i \in 1..Len(content) :
                   \/ i \in stops
                   \/ /\ content[i] \in {".", "!", "?"}
                      /\ \E j \in (i + 1)..Len(content) :
                            /\ j \in stops
                            /\ \A k \in (i + 1)..(j - 1) : content[k] \in {".", "!", "?"}}
        starts == {i \in 1..Len(content) : i \notin cut /\ (i = 1 \/ (i - 1) \in cut)}
        pieceAt(i) ==
            SubSeq(content, i,
                   CHOOSE e \in i..Len(content) :
                       /\ \A k \in i..e : k \notin cut
                       /\ (e = Len(content) \/ (e + 1) \in cut))
        nth(n) == CHOOSE i \in starts : Cardinality({k \in starts : k < i}) = n - 1
        pieces == [n \in 1..Cardinality(starts) |-> Core(pieceAt(nth(n)))]
        ink == {n \in 1..Len(pieces) : pieces[n] # <<>>}
    IN [n \in 1..Cardinality(ink) |->
           pieces[CHOOSE i \in ink : Cardinality({k \in ink : k < i}) = n - 1]]

\* position p is considered before position q: greater similarity first, the
\* earlier position first among equals
ConsideredBefore(sentences, p, q) ==
    LET similarity == compressRun.similarity
    IN \/ similarity[sentences[p]] > similarity[sentences[q]]
       \/ similarity[sentences[p]] = similarity[sentences[q]] /\ p < q

RECURSIVE TokensOf(_, _)
TokensOf(sentences, positions) ==
    IF positions = {} THEN 0
    ELSE LET p == CHOOSE p \in positions : TRUE
         IN (Len(sentences[p]) + 3) \div 4 + TokensOf(sentences, positions \ {p})

\* a position is admitted exactly when its sentence fits on top of the
\* admitted sentences considered before it
AdmittedGreedily(sentences, admitted, budget) ==
    \A p \in 1..Len(sentences) :
        p \in admitted <=>
            TokensOf(sentences, {p} \cup {q \in admitted : ConsideredBefore(sentences, q, p)})
              <= budget

RECURSIVE JoinedInOrder(_, _)
JoinedInOrder(sentences, admitted) ==
    IF admitted = {} THEN <<>>
    ELSE LET p == CHOOSE p \in admitted : \A q \in admitted : p <= q
         IN IF admitted = {p} THEN sentences[p]
            ELSE sentences[p] \o <<".", " ">> \o JoinedInOrder(sentences, admitted \ {p})

CompressBudget ==
    IF compressRun.maxTokensPerDoc = 0 THEN 250 ELSE compressRun.maxTokensPerDoc

\* document i of an embedding-based call is compressed as C25 says
SentencesSelected(i) ==
    LET before == compressRun.documents[i]
        after == compressRun.result[i]
        sentences == SentencesOf(before.chunk.content)
    IN IF Len(sentences) <= 1 THEN after = before
       ELSE \E admitted \in SUBSET (1..Len(sentences)) :
               /\ AdmittedGreedily(sentences, admitted, CompressBudget)
               /\ TokensOf(sentences, admitted) <= CompressBudget
               /\ after.chunk.content = JoinedInOrder(sentences, admitted) \o <<".">>

\* C25: in every embedding-based call that embedded the query, a document of
\* more than one sentence has its sentences considered in descending
\* similarity and admitted while the per-document token budget is not
\* exceeded, the admitted ones joined in their original order; a document of
\* at most one sentence is returned unchanged
C25_SentenceSelection ==
    (compressRun.done /\ compressRun.strategy = "embeddings" /\ compressRun.queryEmbedding) =>
        /\ Len(compressRun.result) = Len(compressRun.documents)
        /\ \A i \in 1..Len(compressRun.documents) : SentencesSelected(i)


\* what the registered tool named by a call leaves as the content of its tool
\* message: its value, or the error string of its failure
ToolContent(call) ==
    IF EngineTools[call.name].kind = "resolve" THEN EngineTools[call.name].value
    ELSE <<"Error executing tool ", call.name, ": ", EngineTools[call.name].value>>

\* the messages one response with tool calls adds: the assistant message
\* carrying the calls, then one tool message per call, in the order of the calls
RoundMessages(resp) ==
    <<[role |-> "assistant", content |-> resp.content,
       toolCalls |-> resp.toolCalls, toolCallId |-> None]>>
    \o [i \in 1..Len(resp.toolCalls) |->
           [role |-> "tool", content |-> ToolContent(resp.toolCalls[i]),
            toolCalls |-> <<>>, toolCallId |-> resp.toolCalls[i].id]]

RECURSIVE RoundsMessages(_)
RoundsMessages(responses) ==
    IF responses = <<>> THEN <<>>
    ELSE RoundMessages(responses[1]) \o RoundsMessages(Tail(responses))

\* C26: whenever an invocation is about to call generate, its message list is
\* the two messages built from the context followed, for every response with
\* tool calls received so far, by exactly one assistant message carrying the
\* calls and exactly one tool message per call, the i-th with the toolCallId of
\* the i-th call whatever the completion order, a failing tool contributing its
\* error string
C26_ToolRoundsInCallOrder ==
    \A c \in CallIds :
        calls[c].pc = "generate" =>
            /\ Len(calls[c].messages) >= 2
            /\ SubSeq(calls[c].messages, 3, Len(calls[c].messages))
                 = RoundsMessages(calls[c].generated)

\* a response asked for a resolving and a failing tool, the failing one
\* completed first, and the invocation is about to call generate again
C26_FailingToolFirstThenNextGenerate ==
    \E c \in CallIds :
        LET r == calls[c]
        IN /\ r.pc = "generate"
           /\ Len(r.generated) >= 1
           /\ Len(r.lastResponse.toolCalls) = 2
           /\ r.toolOrder = <<2, 1>>
           /\ r.messages[Len(r.messages) - 1].toolCallId = "a"
           /\ r.messages[Len(r.messages)].toolCallId = "b"
           /\ r.messages[Len(r.messages)].content = <<"Error executing tool ", "t2", ": ", "m1">>

\* C27: every response of query() whose answer is INSUFFICIENT_CONTEXT has
\* contextSufficient = false, also when the generation itself answers the
\* sentinel
C27_SentinelIsInsufficient ==
    \A c \in CallIds :
        (calls[c].pc = "done" /\ calls[c].method = "query"
           /\ calls[c].response.answer = Sentinel)
          => ~calls[c].response.contextSufficient

\* C28: an invocation that ended with an error has left every session's
\* history as it was, and a session's history is written only by an
\* invocation that holds its complete final answer and is at its last step
C28_FailureLeavesHistory ==
    /\ (\A c \in CallIds : calls[c].pc \notin {"persist", "done"})
          => (memories = [s \in {"s1"} |-> PriorHistory] /\ added["s2"] = <<>>)
    /\ \A c \in CallIds :
          calls[c].pc = "failed" =>
              /\ ~calls[c].wroteMemory
              /\ memories = [s \in {"s1"} |-> PriorHistory]
              /\ added = [s \in Sessions |-> IF s = "s1" THEN PriorHistory ELSE <<>>]

\* a streaming invocation with a session failed after it had yielded a fragment
C28_StreamFailedPartWay ==
    \E c \in CallIds :
        /\ calls[c].pc = "failed"
        /\ calls[c].method = "queryStream"
        /\ calls[c].sessionId = "s1"
        /\ Len(calls[c].yielded) >= 1
        /\ memories["s1"] = PriorHistory


\* C22: a query and a queryStream invocation of the same engine source, with
\* the same query, the same history read and the same capability answers, have
\* the same search queries, the same per-query results, the same merged,
\* capped and compressed pool and the same context once both have built their
\* pools
C22_SameStepsBeforeGeneration ==
    LET a == calls["c1"]
        b == calls["c2"]
    IN (/\ a.impl = b.impl
        /\ a.method = "query" /\ b.method = "queryStream"
        /\ a.query = b.query
        /\ a.history = b.history
        /\ PoolBuilt(a) /\ PoolBuilt(b))
         => /\ a.searchQueries = b.searchQueries
            /\ IssuedLists(a) = IssuedLists(b)
            /\ a.retrievedDocs = b.retrievedDocs
            /\ a.context = b.context

\* what an invocation has appended to its session so far
AppendsOf(r) ==
    LET user == [role |-> "user", content |-> <<r.query>>]
        assistant == [role |-> "assistant", content |-> r.finalAnswer]
    IN IF r.pc = "persist" THEN <<user>>
       ELSE IF r.pc = "done" /\ r.wroteMemory THEN <<user, assistant>>
       ELSE <<>>

\* log is x and y shuffled together, each in its own order
RECURSIVE IsMergeOf(_, _, _)
IsMergeOf(log, x, y) ==
    IF log = <<>> THEN x = <<>> /\ y = <<>>
    ELSE \/ x # <<>> /\ x[1] = log[1] /\ IsMergeOf(Tail(log), Tail(x), y)
         \/ y # <<>> /\ y[1] = log[1] /\ IsMergeOf(Tail(log), x, Tail(y))

\* the last maxMessages entries of the first n appends to session s1
WindowAfter(n) ==
    SubSeq(added["s1"], IF n > maxMessages THEN n - maxMessages + 1 ELSE 1, n)

\* C23: nothing orders two invocations on one session except each one's own
\* program order: the appends to the session are the two invocations' appends
\* shuffled together, each invocation's user message before its assistant
\* message, and what an invocation read is the window over the appends made
\* before its read, wherever the other invocation was
C23_OnlyProgramOrder ==
    /\ Len(added["s1"]) >= 2
    /\ IsMergeOf(SubSeq(added["s1"], 3, Len(added["s1"])),
                 AppendsOf(calls["c1"]), AppendsOf(calls["c2"]))
    /\ \A c \in PairIds :
          calls[c].pc # "idle" =>
              \E n \in 2..Len(added["s1"]) : calls[c].history = WindowAfter(n)

\* both invocations read the history before either appended, both built
\* their contexts without the other's exchange, and the four appends are
\* user A, user B, assistant A, assistant B
C23_ExchangesInterleaved ==
    LET a == calls["c1"]
        b == calls["c2"]
    IN /\ a.pc = "done" /\ b.pc = "done"
       /\ a.method = "query" /\ b.method = "query"
       /\ a.query = "q" /\ b.query = "p"
       /\ a.history = SubSeq(added["s1"], 1, 2)
       /\ b.history = SubSeq(added["s1"], 1, 2)
       /\ a.historyAtBuild = a.history
       /\ b.historyAtBuild = b.history
       /\ Len(added["s1"]) = 6
       /\ added["s1"][3] = [role |-> "user", content |-> <<"q">>]
       /\ added["s1"][4] = [role |-> "user", content |-> <<"p">>]
       /\ added["s1"][5] = [role |-> "assistant", content |-> a.finalAnswer]
       /\ added["s1"][6] = [role |-> "assistant", content |-> b.finalAnswer]

\* C29: the history an invocation holds, and the history it hands to the
\* context builder, is the session history as it was when the invocation
\* read it, whatever was appended to the session afterwards
C29_HeldHistoryIsSnapshot ==
    \A c \in PairIds :
        calls[c].pc # "idle" =>
            /\ calls[c].historyNow = calls[c].history
            /\ calls[c].context # NoContext => calls[c].historyAtBuild = calls[c].history


\* C30: a streaming chat request that has ended has emitted one chunk event
\* per fragment queryStream yielded, in order, and then exactly one final
\* event with done = true whose response is the RAGResponse queryStream
\* returned
C30_ChunksThenReturnedResponse ==
    chatRun.pc = "done" =>
        chatRun.events =
            [i \in 1..Len(chatRun.fragments) |-> [chunk |-> chatRun.fragments[i]]]
              \o <<[done |-> TRUE, response |-> chatRun.returned]>>

====
